---- MODULE Spec2Model ----
(***************************************************************************)
(* Deinflection and dictionary resolution of the ebook reader's word       *)
(* lookup: deinflect (deinflector.ts), validateDeinflection, lookupWord,   *)
(* lookupWordWithSubstrings and lookupWordBest (dictionary-lookup.ts),     *)
(* lookupByTermOrReading (dictionary-db.ts) and katakanaToHiragana         *)
(* (segmenter.ts).                                                         *)
(*                                                                         *)
(* A JavaScript string is a sequence of UTF-16 code units (integers), so   *)
(* that endsWith, slice, split, startsWith and the kana conversion are     *)
(* computed on characters.  Reason labels and glossary lines are never     *)
(* inspected by the code and are kept as TLA+ strings.                     *)
(***************************************************************************)
EXTENDS Integers, Sequences, FiniteSets, TLC

VARIABLES
  op,                  \* the exported function that was called
  word,                \* lookupWord's argument `word`; lookupWordWithSubstrings' local `substring`
  readingHint,         \* the argument `readingHint`: <<>> is undefined, <<s>> the string s
  db,                  \* rows of the IndexedDB object store 'terms'
  pc,                  \* position of the call
  bfs,                 \* deinflect's locals: results, seen, queue
  deinflectionResults, \* the candidate list
  k,                   \* index of the next candidate of the for-of loop
  results,             \* the local `results`
  seenSequences,       \* the local `seenSequences`
  validated,           \* history: the calls of validateDeinflection and their verdicts
  iterations,          \* history: the iterations deinflect's while loop has made
  ret,                 \* the value returned
  inputText,           \* lookupWordWithSubstrings' argument `text`
  startIndex,          \* its argument `startIndex`
  maxLength,           \* its argument `maxLength`
  len,                 \* its loop variable `len`
  queries,             \* history: the index queries issued by the call, and what they gave
  tried,               \* history: the values len had at the head of the loop
  error,               \* the failure the call was rejected with, or "none"
  first,               \* history: <<list>> when an earlier, identical lookupWord call returned list
  kuroshiroInstance,   \* furigana generator: "null" or the Kuroshiro instance
  initPromise,         \* furigana generator: "null" or the state of the promise
  kuroshiroInit,       \* the init(analyzer) of the instance: not started, running, done, failed
  initCalls,           \* the promise each call of initFuriganaGenerator returned
  revision,            \* the revision in index.json of the deployment
  version,             \* store 'metadata': the value at the key 'version', or "null"
  terms,               \* store 'terms': the term banks whose entries it holds
  bundledVersion,      \* loadDictionary's local `bundledVersion`
  bank,                \* loadDictionary's loop variable `i`
  loadPc,              \* position of the loadDictionary call
  loadError,           \* what loadDictionary threw
  status,              \* what checkDictionaryStatus gave
  latest,              \* the number of the click switchMap is subscribed to
  task,                \* position of the async function called for each click
  wordLookupState,     \* the value of wordLookupState$
  opened               \* history: the calls of openWordLookup

furiganaVars == <<kuroshiroInstance, initPromise, kuroshiroInit, initCalls>>

loaderVars == <<revision, version, terms, bundledVersion, bank, loadPc, loadError, status>>

handlerVars == <<latest, task, wordLookupState, opened>>

appVars == <<furiganaVars, loaderVars, handlerVars>>

vars == <<op, word, readingHint, db, pc, bfs, deinflectionResults, k, results,
          seenSequences, validated, iterations, ret, inputText, startIndex, maxLength,
          len, queries, tried, error, first, appVars>>

substringVars == <<inputText, startIndex, maxLength, len, tried>>

----------------------------------------------------------------------------
(* Bounds of the model *)

\* longest input word given to deinflect
MaxLen == 4

\* calls of initFuriganaGenerator
MaxCallers == 2

\* clicks that reach the lookup
MaxClicks == 2

\* largest number of rows in the dictionary store
MaxEntries == 3

----------------------------------------------------------------------------
(* Strings *)

\* String.prototype.endsWith
endsWith(s, suffix) ==
  /\ Len(suffix) <= Len(s)
  /\ SubSeq(s, Len(s) - Len(suffix) + 1, Len(s)) = suffix

\* String.prototype.startsWith
startsWith(s, prefix) ==
  /\ Len(prefix) <= Len(s)
  /\ SubSeq(s, 1, Len(prefix)) = prefix

\* s.slice(0, n)
slice0(s, n) == SubSeq(s, 1, n)

\* katakanaToHiragana: every code unit in U+30A1..U+30F6 is lowered by 0x60
katakanaToHiragana(text) ==
  [i \in 1..Len(text) |->
     IF text[i] >= 12449 /\ text[i] <= 12534 THEN text[i] - 96 ELSE text[i]]

\* s.split(' '): the pieces between spaces (U+0020), empty pieces included
RECURSIVE splitFrom(_, _, _)
splitFrom(s, i, piece) ==
  IF i > Len(s) THEN <<piece>>
  ELSE IF s[i] = 32 THEN <<piece>> \o splitFrom(s, i + 1, <<>>)
  ELSE splitFrom(s, i + 1, Append(piece, s[i]))

split(s) == splitFrom(s, 1, <<>>)

\* s.split(' ').filter((r) => r.length > 0)
tokens(s) == SelectSeq(split(s), LAMBDA r : Len(r) > 0)

\* Array.prototype.includes / some
includes(arr, x) == \E i \in 1..Len(arr) : arr[i] = x

----------------------------------------------------------------------------
(* Verb/adjective type flags *)

V1 == <<118, 49>>                    \* 'v1'
V5 == <<118, 53>>                    \* 'v5'
VS == <<118, 115>>                   \* 'vs'
VK == <<118, 107>>                   \* 'vk'
ADJ_I == <<97, 100, 106, 45, 105>>   \* 'adj-i'

\* The rule table, in source order (kana as UTF-16 code units)
DEINFLECTION_RULES ==
  <<
     [kanaIn |-> <<12390>>, kanaOut |-> <<12427>>, rulesIn |-> <<>>, rulesOut |-> <<V1>>, reason |-> "te-form"],
     [kanaIn |-> <<12356, 12390>>, kanaOut |-> <<12367>>, rulesIn |-> <<>>, rulesOut |-> <<V5>>, reason |-> "te-form"],
     [kanaIn |-> <<12356, 12391>>, kanaOut |-> <<12368>>, rulesIn |-> <<>>, rulesOut |-> <<V5>>, reason |-> "te-form"],
     [kanaIn |-> <<12375, 12390>>, kanaOut |-> <<12377>>, rulesIn |-> <<>>, rulesOut |-> <<V5>>, reason |-> "te-form"],
     [kanaIn |-> <<12387, 12390>>, kanaOut |-> <<12358>>, rulesIn |-> <<>>, rulesOut |-> <<V5>>, reason |-> "te-form"],
     [kanaIn |-> <<12387, 12390>>, kanaOut |-> <<12388>>, rulesIn |-> <<>>, rulesOut |-> <<V5>>, reason |-> "te-form"],
     [kanaIn |-> <<12387, 12390>>, kanaOut |-> <<12427>>, rulesIn |-> <<>>, rulesOut |-> <<V5>>, reason |-> "te-form"],
     [kanaIn |-> <<12435, 12391>>, kanaOut |-> <<12396>>, rulesIn |-> <<>>, rulesOut |-> <<V5>>, reason |-> "te-form"],
     [kanaIn |-> <<12435, 12391>>, kanaOut |-> <<12406>>, rulesIn |-> <<>>, rulesOut |-> <<V5>>, reason |-> "te-form"],
     [kanaIn |-> <<12435, 12391>>, kanaOut |-> <<12416>>, rulesIn |-> <<>>, rulesOut |-> <<V5>>, reason |-> "te-form"],
     [kanaIn |-> <<12375, 12390>>, kanaOut |-> <<12377, 12427>>, rulesIn |-> <<>>, rulesOut |-> <<VS>>, reason |-> "te-form"],
     [kanaIn |-> <<12365, 12390>>, kanaOut |-> <<12367, 12427>>, rulesIn |-> <<>>, rulesOut |-> <<VK>>, reason |-> "te-form"],
     [kanaIn |-> <<26469, 12390>>, kanaOut |-> <<26469, 12427>>, rulesIn |-> <<>>, rulesOut |-> <<VK>>, reason |-> "te-form"],
     [kanaIn |-> <<12383>>, kanaOut |-> <<12427>>, rulesIn |-> <<>>, rulesOut |-> <<V1>>, reason |-> "past"],
     [kanaIn |-> <<12356, 12383>>, kanaOut |-> <<12367>>, rulesIn |-> <<>>, rulesOut |-> <<V5>>, reason |-> "past"],
     [kanaIn |-> <<12356, 12384>>, kanaOut |-> <<12368>>, rulesIn |-> <<>>, rulesOut |-> <<V5>>, reason |-> "past"],
     [kanaIn |-> <<12375, 12383>>, kanaOut |-> <<12377>>, rulesIn |-> <<>>, rulesOut |-> <<V5>>, reason |-> "past"],
     [kanaIn |-> <<12387, 12383>>, kanaOut |-> <<12358>>, rulesIn |-> <<>>, rulesOut |-> <<V5>>, reason |-> "past"],
     [kanaIn |-> <<12387, 12383>>, kanaOut |-> <<12388>>, rulesIn |-> <<>>, rulesOut |-> <<V5>>, reason |-> "past"],
     [kanaIn |-> <<12387, 12383>>, kanaOut |-> <<12427>>, rulesIn |-> <<>>, rulesOut |-> <<V5>>, reason |-> "past"],
     [kanaIn |-> <<12435, 12384>>, kanaOut |-> <<12396>>, rulesIn |-> <<>>, rulesOut |-> <<V5>>, reason |-> "past"],
     [kanaIn |-> <<12435, 12384>>, kanaOut |-> <<12406>>, rulesIn |-> <<>>, rulesOut |-> <<V5>>, reason |-> "past"],
     [kanaIn |-> <<12435, 12384>>, kanaOut |-> <<12416>>, rulesIn |-> <<>>, rulesOut |-> <<V5>>, reason |-> "past"],
     [kanaIn |-> <<12375, 12383>>, kanaOut |-> <<12377, 12427>>, rulesIn |-> <<>>, rulesOut |-> <<VS>>, reason |-> "past"],
     [kanaIn |-> <<12365, 12383>>, kanaOut |-> <<12367, 12427>>, rulesIn |-> <<>>, rulesOut |-> <<VK>>, reason |-> "past"],
     [kanaIn |-> <<26469, 12383>>, kanaOut |-> <<26469, 12427>>, rulesIn |-> <<>>, rulesOut |-> <<VK>>, reason |-> "past"],
     [kanaIn |-> <<12363, 12387, 12383>>, kanaOut |-> <<12356>>, rulesIn |-> <<>>, rulesOut |-> <<ADJ_I>>, reason |-> "past"],
     [kanaIn |-> <<12394, 12356>>, kanaOut |-> <<12427>>, rulesIn |-> <<>>, rulesOut |-> <<V1>>, reason |-> "negative"],
     [kanaIn |-> <<12363, 12394, 12356>>, kanaOut |-> <<12367>>, rulesIn |-> <<>>, rulesOut |-> <<V5>>, reason |-> "negative"],
     [kanaIn |-> <<12364, 12394, 12356>>, kanaOut |-> <<12368>>, rulesIn |-> <<>>, rulesOut |-> <<V5>>, reason |-> "negative"],
     [kanaIn |-> <<12373, 12394, 12356>>, kanaOut |-> <<12377>>, rulesIn |-> <<>>, rulesOut |-> <<V5>>, reason |-> "negative"],
     [kanaIn |-> <<12383, 12394, 12356>>, kanaOut |-> <<12388>>, rulesIn |-> <<>>, rulesOut |-> <<V5>>, reason |-> "negative"],
     [kanaIn |-> <<12394, 12394, 12356>>, kanaOut |-> <<12396>>, rulesIn |-> <<>>, rulesOut |-> <<V5>>, reason |-> "negative"],
     [kanaIn |-> <<12400, 12394, 12356>>, kanaOut |-> <<12406>>, rulesIn |-> <<>>, rulesOut |-> <<V5>>, reason |-> "negative"],
     [kanaIn |-> <<12414, 12394, 12356>>, kanaOut |-> <<12416>>, rulesIn |-> <<>>, rulesOut |-> <<V5>>, reason |-> "negative"],
     [kanaIn |-> <<12425, 12394, 12356>>, kanaOut |-> <<12427>>, rulesIn |-> <<>>, rulesOut |-> <<V5>>, reason |-> "negative"],
     [kanaIn |-> <<12431, 12394, 12356>>, kanaOut |-> <<12358>>, rulesIn |-> <<>>, rulesOut |-> <<V5>>, reason |-> "negative"],
     [kanaIn |-> <<12375, 12394, 12356>>, kanaOut |-> <<12377, 12427>>, rulesIn |-> <<>>, rulesOut |-> <<VS>>, reason |-> "negative"],
     [kanaIn |-> <<12371, 12394, 12356>>, kanaOut |-> <<12367, 12427>>, rulesIn |-> <<>>, rulesOut |-> <<VK>>, reason |-> "negative"],
     [kanaIn |-> <<26469, 12394, 12356>>, kanaOut |-> <<26469, 12427>>, rulesIn |-> <<>>, rulesOut |-> <<VK>>, reason |-> "negative"],
     [kanaIn |-> <<12367, 12394, 12356>>, kanaOut |-> <<12356>>, rulesIn |-> <<>>, rulesOut |-> <<ADJ_I>>, reason |-> "negative"],
     [kanaIn |-> <<12414, 12377>>, kanaOut |-> <<12427>>, rulesIn |-> <<>>, rulesOut |-> <<V1>>, reason |-> "polite"],
     [kanaIn |-> <<12356, 12414, 12377>>, kanaOut |-> <<12358>>, rulesIn |-> <<>>, rulesOut |-> <<V5>>, reason |-> "polite"],
     [kanaIn |-> <<12365, 12414, 12377>>, kanaOut |-> <<12367>>, rulesIn |-> <<>>, rulesOut |-> <<V5>>, reason |-> "polite"],
     [kanaIn |-> <<12366, 12414, 12377>>, kanaOut |-> <<12368>>, rulesIn |-> <<>>, rulesOut |-> <<V5>>, reason |-> "polite"],
     [kanaIn |-> <<12375, 12414, 12377>>, kanaOut |-> <<12377>>, rulesIn |-> <<>>, rulesOut |-> <<V5>>, reason |-> "polite"],
     [kanaIn |-> <<12385, 12414, 12377>>, kanaOut |-> <<12388>>, rulesIn |-> <<>>, rulesOut |-> <<V5>>, reason |-> "polite"],
     [kanaIn |-> <<12395, 12414, 12377>>, kanaOut |-> <<12396>>, rulesIn |-> <<>>, rulesOut |-> <<V5>>, reason |-> "polite"],
     [kanaIn |-> <<12403, 12414, 12377>>, kanaOut |-> <<12406>>, rulesIn |-> <<>>, rulesOut |-> <<V5>>, reason |-> "polite"],
     [kanaIn |-> <<12415, 12414, 12377>>, kanaOut |-> <<12416>>, rulesIn |-> <<>>, rulesOut |-> <<V5>>, reason |-> "polite"],
     [kanaIn |-> <<12426, 12414, 12377>>, kanaOut |-> <<12427>>, rulesIn |-> <<>>, rulesOut |-> <<V5>>, reason |-> "polite"],
     [kanaIn |-> <<12375, 12414, 12377>>, kanaOut |-> <<12377, 12427>>, rulesIn |-> <<>>, rulesOut |-> <<VS>>, reason |-> "polite"],
     [kanaIn |-> <<12365, 12414, 12377>>, kanaOut |-> <<12367, 12427>>, rulesIn |-> <<>>, rulesOut |-> <<VK>>, reason |-> "polite"],
     [kanaIn |-> <<26469, 12414, 12377>>, kanaOut |-> <<26469, 12427>>, rulesIn |-> <<>>, rulesOut |-> <<VK>>, reason |-> "polite"],
     [kanaIn |-> <<12390, 12356, 12427>>, kanaOut |-> <<12427>>, rulesIn |-> <<>>, rulesOut |-> <<V1>>, reason |-> "progressive"],
     [kanaIn |-> <<12390, 12356, 12383>>, kanaOut |-> <<12427>>, rulesIn |-> <<>>, rulesOut |-> <<V1>>, reason |-> "progressive past"],
     [kanaIn |-> <<12390, 12427>>, kanaOut |-> <<12427>>, rulesIn |-> <<>>, rulesOut |-> <<V1>>, reason |-> "progressive (colloquial)"],
     [kanaIn |-> <<12390, 12383>>, kanaOut |-> <<12427>>, rulesIn |-> <<>>, rulesOut |-> <<V1>>, reason |-> "progressive past (colloquial)"],
     [kanaIn |-> <<12356, 12390, 12356, 12427>>, kanaOut |-> <<12367>>, rulesIn |-> <<>>, rulesOut |-> <<V5>>, reason |-> "progressive"],
     [kanaIn |-> <<12356, 12391, 12356, 12427>>, kanaOut |-> <<12368>>, rulesIn |-> <<>>, rulesOut |-> <<V5>>, reason |-> "progressive"],
     [kanaIn |-> <<12375, 12390, 12356, 12427>>, kanaOut |-> <<12377>>, rulesIn |-> <<>>, rulesOut |-> <<V5>>, reason |-> "progressive"],
     [kanaIn |-> <<12387, 12390, 12356, 12427>>, kanaOut |-> <<12358>>, rulesIn |-> <<>>, rulesOut |-> <<V5>>, reason |-> "progressive"],
     [kanaIn |-> <<12387, 12390, 12356, 12427>>, kanaOut |-> <<12388>>, rulesIn |-> <<>>, rulesOut |-> <<V5>>, reason |-> "progressive"],
     [kanaIn |-> <<12387, 12390, 12356, 12427>>, kanaOut |-> <<12427>>, rulesIn |-> <<>>, rulesOut |-> <<V5>>, reason |-> "progressive"],
     [kanaIn |-> <<12435, 12391, 12356, 12427>>, kanaOut |-> <<12396>>, rulesIn |-> <<>>, rulesOut |-> <<V5>>, reason |-> "progressive"],
     [kanaIn |-> <<12435, 12391, 12356, 12427>>, kanaOut |-> <<12406>>, rulesIn |-> <<>>, rulesOut |-> <<V5>>, reason |-> "progressive"],
     [kanaIn |-> <<12435, 12391, 12356, 12427>>, kanaOut |-> <<12416>>, rulesIn |-> <<>>, rulesOut |-> <<V5>>, reason |-> "progressive"],
     [kanaIn |-> <<12356, 12390, 12427>>, kanaOut |-> <<12367>>, rulesIn |-> <<>>, rulesOut |-> <<V5>>, reason |-> "progressive (colloquial)"],
     [kanaIn |-> <<12356, 12391, 12427>>, kanaOut |-> <<12368>>, rulesIn |-> <<>>, rulesOut |-> <<V5>>, reason |-> "progressive (colloquial)"],
     [kanaIn |-> <<12375, 12390, 12427>>, kanaOut |-> <<12377>>, rulesIn |-> <<>>, rulesOut |-> <<V5>>, reason |-> "progressive (colloquial)"],
     [kanaIn |-> <<12387, 12390, 12427>>, kanaOut |-> <<12358>>, rulesIn |-> <<>>, rulesOut |-> <<V5>>, reason |-> "progressive (colloquial)"],
     [kanaIn |-> <<12387, 12390, 12427>>, kanaOut |-> <<12388>>, rulesIn |-> <<>>, rulesOut |-> <<V5>>, reason |-> "progressive (colloquial)"],
     [kanaIn |-> <<12387, 12390, 12427>>, kanaOut |-> <<12427>>, rulesIn |-> <<>>, rulesOut |-> <<V5>>, reason |-> "progressive (colloquial)"],
     [kanaIn |-> <<12435, 12391, 12427>>, kanaOut |-> <<12396>>, rulesIn |-> <<>>, rulesOut |-> <<V5>>, reason |-> "progressive (colloquial)"],
     [kanaIn |-> <<12435, 12391, 12427>>, kanaOut |-> <<12406>>, rulesIn |-> <<>>, rulesOut |-> <<V5>>, reason |-> "progressive (colloquial)"],
     [kanaIn |-> <<12435, 12391, 12427>>, kanaOut |-> <<12416>>, rulesIn |-> <<>>, rulesOut |-> <<V5>>, reason |-> "progressive (colloquial)"],
     [kanaIn |-> <<12375, 12390, 12356, 12427>>, kanaOut |-> <<12377, 12427>>, rulesIn |-> <<>>, rulesOut |-> <<VS>>, reason |-> "progressive"],
     [kanaIn |-> <<12375, 12390, 12427>>, kanaOut |-> <<12377, 12427>>, rulesIn |-> <<>>, rulesOut |-> <<VS>>, reason |-> "progressive (colloquial)"],
     [kanaIn |-> <<12365, 12390, 12356, 12427>>, kanaOut |-> <<12367, 12427>>, rulesIn |-> <<>>, rulesOut |-> <<VK>>, reason |-> "progressive"],
     [kanaIn |-> <<12365, 12390, 12427>>, kanaOut |-> <<12367, 12427>>, rulesIn |-> <<>>, rulesOut |-> <<VK>>, reason |-> "progressive (colloquial)"],
     [kanaIn |-> <<12383, 12356>>, kanaOut |-> <<12427>>, rulesIn |-> <<>>, rulesOut |-> <<V1>>, reason |-> "want to"],
     [kanaIn |-> <<12356, 12383, 12356>>, kanaOut |-> <<12358>>, rulesIn |-> <<>>, rulesOut |-> <<V5>>, reason |-> "want to"],
     [kanaIn |-> <<12365, 12383, 12356>>, kanaOut |-> <<12367>>, rulesIn |-> <<>>, rulesOut |-> <<V5>>, reason |-> "want to"],
     [kanaIn |-> <<12366, 12383, 12356>>, kanaOut |-> <<12368>>, rulesIn |-> <<>>, rulesOut |-> <<V5>>, reason |-> "want to"],
     [kanaIn |-> <<12375, 12383, 12356>>, kanaOut |-> <<12377>>, rulesIn |-> <<>>, rulesOut |-> <<V5>>, reason |-> "want to"],
     [kanaIn |-> <<12385, 12383, 12356>>, kanaOut |-> <<12388>>, rulesIn |-> <<>>, rulesOut |-> <<V5>>, reason |-> "want to"],
     [kanaIn |-> <<12395, 12383, 12356>>, kanaOut |-> <<12396>>, rulesIn |-> <<>>, rulesOut |-> <<V5>>, reason |-> "want to"],
     [kanaIn |-> <<12403, 12383, 12356>>, kanaOut |-> <<12406>>, rulesIn |-> <<>>, rulesOut |-> <<V5>>, reason |-> "want to"],
     [kanaIn |-> <<12415, 12383, 12356>>, kanaOut |-> <<12416>>, rulesIn |-> <<>>, rulesOut |-> <<V5>>, reason |-> "want to"],
     [kanaIn |-> <<12426, 12383, 12356>>, kanaOut |-> <<12427>>, rulesIn |-> <<>>, rulesOut |-> <<V5>>, reason |-> "want to"],
     [kanaIn |-> <<12375, 12383, 12356>>, kanaOut |-> <<12377, 12427>>, rulesIn |-> <<>>, rulesOut |-> <<VS>>, reason |-> "want to"],
     [kanaIn |-> <<12365, 12383, 12356>>, kanaOut |-> <<12367, 12427>>, rulesIn |-> <<>>, rulesOut |-> <<VK>>, reason |-> "want to"],
     [kanaIn |-> <<12428, 12427>>, kanaOut |-> <<12427>>, rulesIn |-> <<>>, rulesOut |-> <<V1>>, reason |-> "potential"],
     [kanaIn |-> <<12425, 12428, 12427>>, kanaOut |-> <<12427>>, rulesIn |-> <<>>, rulesOut |-> <<V1>>, reason |-> "potential/passive"],
     [kanaIn |-> <<12360, 12427>>, kanaOut |-> <<12358>>, rulesIn |-> <<>>, rulesOut |-> <<V5>>, reason |-> "potential"],
     [kanaIn |-> <<12369, 12427>>, kanaOut |-> <<12367>>, rulesIn |-> <<>>, rulesOut |-> <<V5>>, reason |-> "potential"],
     [kanaIn |-> <<12370, 12427>>, kanaOut |-> <<12368>>, rulesIn |-> <<>>, rulesOut |-> <<V5>>, reason |-> "potential"],
     [kanaIn |-> <<12379, 12427>>, kanaOut |-> <<12377>>, rulesIn |-> <<>>, rulesOut |-> <<V5>>, reason |-> "potential"],
     [kanaIn |-> <<12390, 12427>>, kanaOut |-> <<12388>>, rulesIn |-> <<>>, rulesOut |-> <<V5>>, reason |-> "potential"],
     [kanaIn |-> <<12397, 12427>>, kanaOut |-> <<12396>>, rulesIn |-> <<>>, rulesOut |-> <<V5>>, reason |-> "potential"],
     [kanaIn |-> <<12409, 12427>>, kanaOut |-> <<12406>>, rulesIn |-> <<>>, rulesOut |-> <<V5>>, reason |-> "potential"],
     [kanaIn |-> <<12417, 12427>>, kanaOut |-> <<12416>>, rulesIn |-> <<>>, rulesOut |-> <<V5>>, reason |-> "potential"],
     [kanaIn |-> <<12391, 12365, 12427>>, kanaOut |-> <<12377, 12427>>, rulesIn |-> <<>>, rulesOut |-> <<VS>>, reason |-> "potential"],
     [kanaIn |-> <<12371, 12428, 12427>>, kanaOut |-> <<12367, 12427>>, rulesIn |-> <<>>, rulesOut |-> <<VK>>, reason |-> "potential"],
     [kanaIn |-> <<26469, 12428, 12427>>, kanaOut |-> <<26469, 12427>>, rulesIn |-> <<>>, rulesOut |-> <<VK>>, reason |-> "potential"],
     [kanaIn |-> <<12363, 12428, 12427>>, kanaOut |-> <<12367>>, rulesIn |-> <<>>, rulesOut |-> <<V5>>, reason |-> "passive"],
     [kanaIn |-> <<12364, 12428, 12427>>, kanaOut |-> <<12368>>, rulesIn |-> <<>>, rulesOut |-> <<V5>>, reason |-> "passive"],
     [kanaIn |-> <<12373, 12428, 12427>>, kanaOut |-> <<12377>>, rulesIn |-> <<>>, rulesOut |-> <<V5>>, reason |-> "passive"],
     [kanaIn |-> <<12383, 12428, 12427>>, kanaOut |-> <<12388>>, rulesIn |-> <<>>, rulesOut |-> <<V5>>, reason |-> "passive"],
     [kanaIn |-> <<12394, 12428, 12427>>, kanaOut |-> <<12396>>, rulesIn |-> <<>>, rulesOut |-> <<V5>>, reason |-> "passive"],
     [kanaIn |-> <<12400, 12428, 12427>>, kanaOut |-> <<12406>>, rulesIn |-> <<>>, rulesOut |-> <<V5>>, reason |-> "passive"],
     [kanaIn |-> <<12414, 12428, 12427>>, kanaOut |-> <<12416>>, rulesIn |-> <<>>, rulesOut |-> <<V5>>, reason |-> "passive"],
     [kanaIn |-> <<12431, 12428, 12427>>, kanaOut |-> <<12358>>, rulesIn |-> <<>>, rulesOut |-> <<V5>>, reason |-> "passive"],
     [kanaIn |-> <<12425, 12428, 12427>>, kanaOut |-> <<12427>>, rulesIn |-> <<>>, rulesOut |-> <<V5>>, reason |-> "passive"],
     [kanaIn |-> <<12373, 12428, 12427>>, kanaOut |-> <<12377, 12427>>, rulesIn |-> <<>>, rulesOut |-> <<VS>>, reason |-> "passive"],
     [kanaIn |-> <<12371, 12425, 12428, 12427>>, kanaOut |-> <<12367, 12427>>, rulesIn |-> <<>>, rulesOut |-> <<VK>>, reason |-> "passive"],
     [kanaIn |-> <<12373, 12379, 12427>>, kanaOut |-> <<12427>>, rulesIn |-> <<>>, rulesOut |-> <<V1>>, reason |-> "causative"],
     [kanaIn |-> <<12363, 12379, 12427>>, kanaOut |-> <<12367>>, rulesIn |-> <<>>, rulesOut |-> <<V5>>, reason |-> "causative"],
     [kanaIn |-> <<12364, 12379, 12427>>, kanaOut |-> <<12368>>, rulesIn |-> <<>>, rulesOut |-> <<V5>>, reason |-> "causative"],
     [kanaIn |-> <<12373, 12379, 12427>>, kanaOut |-> <<12377>>, rulesIn |-> <<>>, rulesOut |-> <<V5>>, reason |-> "causative"],
     [kanaIn |-> <<12383, 12379, 12427>>, kanaOut |-> <<12388>>, rulesIn |-> <<>>, rulesOut |-> <<V5>>, reason |-> "causative"],
     [kanaIn |-> <<12394, 12379, 12427>>, kanaOut |-> <<12396>>, rulesIn |-> <<>>, rulesOut |-> <<V5>>, reason |-> "causative"],
     [kanaIn |-> <<12400, 12379, 12427>>, kanaOut |-> <<12406>>, rulesIn |-> <<>>, rulesOut |-> <<V5>>, reason |-> "causative"],
     [kanaIn |-> <<12414, 12379, 12427>>, kanaOut |-> <<12416>>, rulesIn |-> <<>>, rulesOut |-> <<V5>>, reason |-> "causative"],
     [kanaIn |-> <<12425, 12379, 12427>>, kanaOut |-> <<12427>>, rulesIn |-> <<>>, rulesOut |-> <<V5>>, reason |-> "causative"],
     [kanaIn |-> <<12431, 12379, 12427>>, kanaOut |-> <<12358>>, rulesIn |-> <<>>, rulesOut |-> <<V5>>, reason |-> "causative"],
     [kanaIn |-> <<12373, 12379, 12427>>, kanaOut |-> <<12377, 12427>>, rulesIn |-> <<>>, rulesOut |-> <<VS>>, reason |-> "causative"],
     [kanaIn |-> <<12371, 12373, 12379, 12427>>, kanaOut |-> <<12367, 12427>>, rulesIn |-> <<>>, rulesOut |-> <<VK>>, reason |-> "causative"],
     [kanaIn |-> <<12429>>, kanaOut |-> <<12427>>, rulesIn |-> <<>>, rulesOut |-> <<V1>>, reason |-> "imperative"],
     [kanaIn |-> <<12424>>, kanaOut |-> <<12427>>, rulesIn |-> <<>>, rulesOut |-> <<V1>>, reason |-> "imperative"],
     [kanaIn |-> <<12360>>, kanaOut |-> <<12358>>, rulesIn |-> <<>>, rulesOut |-> <<V5>>, reason |-> "imperative"],
     [kanaIn |-> <<12369>>, kanaOut |-> <<12367>>, rulesIn |-> <<>>, rulesOut |-> <<V5>>, reason |-> "imperative"],
     [kanaIn |-> <<12370>>, kanaOut |-> <<12368>>, rulesIn |-> <<>>, rulesOut |-> <<V5>>, reason |-> "imperative"],
     [kanaIn |-> <<12379>>, kanaOut |-> <<12377>>, rulesIn |-> <<>>, rulesOut |-> <<V5>>, reason |-> "imperative"],
     [kanaIn |-> <<12390>>, kanaOut |-> <<12388>>, rulesIn |-> <<>>, rulesOut |-> <<V5>>, reason |-> "imperative"],
     [kanaIn |-> <<12397>>, kanaOut |-> <<12396>>, rulesIn |-> <<>>, rulesOut |-> <<V5>>, reason |-> "imperative"],
     [kanaIn |-> <<12409>>, kanaOut |-> <<12406>>, rulesIn |-> <<>>, rulesOut |-> <<V5>>, reason |-> "imperative"],
     [kanaIn |-> <<12417>>, kanaOut |-> <<12416>>, rulesIn |-> <<>>, rulesOut |-> <<V5>>, reason |-> "imperative"],
     [kanaIn |-> <<12428>>, kanaOut |-> <<12427>>, rulesIn |-> <<>>, rulesOut |-> <<V5>>, reason |-> "imperative"],
     [kanaIn |-> <<12375, 12429>>, kanaOut |-> <<12377, 12427>>, rulesIn |-> <<>>, rulesOut |-> <<VS>>, reason |-> "imperative"],
     [kanaIn |-> <<12379, 12424>>, kanaOut |-> <<12377, 12427>>, rulesIn |-> <<>>, rulesOut |-> <<VS>>, reason |-> "imperative"],
     [kanaIn |-> <<12371, 12356>>, kanaOut |-> <<12367, 12427>>, rulesIn |-> <<>>, rulesOut |-> <<VK>>, reason |-> "imperative"],
     [kanaIn |-> <<26469, 12356>>, kanaOut |-> <<26469, 12427>>, rulesIn |-> <<>>, rulesOut |-> <<VK>>, reason |-> "imperative"],
     [kanaIn |-> <<12424, 12358>>, kanaOut |-> <<12427>>, rulesIn |-> <<>>, rulesOut |-> <<V1>>, reason |-> "volitional"],
     [kanaIn |-> <<12362, 12358>>, kanaOut |-> <<12358>>, rulesIn |-> <<>>, rulesOut |-> <<V5>>, reason |-> "volitional"],
     [kanaIn |-> <<12371, 12358>>, kanaOut |-> <<12367>>, rulesIn |-> <<>>, rulesOut |-> <<V5>>, reason |-> "volitional"],
     [kanaIn |-> <<12372, 12358>>, kanaOut |-> <<12368>>, rulesIn |-> <<>>, rulesOut |-> <<V5>>, reason |-> "volitional"],
     [kanaIn |-> <<12381, 12358>>, kanaOut |-> <<12377>>, rulesIn |-> <<>>, rulesOut |-> <<V5>>, reason |-> "volitional"],
     [kanaIn |-> <<12392, 12358>>, kanaOut |-> <<12388>>, rulesIn |-> <<>>, rulesOut |-> <<V5>>, reason |-> "volitional"],
     [kanaIn |-> <<12398, 12358>>, kanaOut |-> <<12396>>, rulesIn |-> <<>>, rulesOut |-> <<V5>>, reason |-> "volitional"],
     [kanaIn |-> <<12412, 12358>>, kanaOut |-> <<12406>>, rulesIn |-> <<>>, rulesOut |-> <<V5>>, reason |-> "volitional"],
     [kanaIn |-> <<12418, 12358>>, kanaOut |-> <<12416>>, rulesIn |-> <<>>, rulesOut |-> <<V5>>, reason |-> "volitional"],
     [kanaIn |-> <<12429, 12358>>, kanaOut |-> <<12427>>, rulesIn |-> <<>>, rulesOut |-> <<V5>>, reason |-> "volitional"],
     [kanaIn |-> <<12375, 12424, 12358>>, kanaOut |-> <<12377, 12427>>, rulesIn |-> <<>>, rulesOut |-> <<VS>>, reason |-> "volitional"],
     [kanaIn |-> <<12371, 12424, 12358>>, kanaOut |-> <<12367, 12427>>, rulesIn |-> <<>>, rulesOut |-> <<VK>>, reason |-> "volitional"],
     [kanaIn |-> <<12428, 12400>>, kanaOut |-> <<12427>>, rulesIn |-> <<>>, rulesOut |-> <<V1, V5>>, reason |-> "conditional"],
     [kanaIn |-> <<12360, 12400>>, kanaOut |-> <<12358>>, rulesIn |-> <<>>, rulesOut |-> <<V5>>, reason |-> "conditional"],
     [kanaIn |-> <<12369, 12400>>, kanaOut |-> <<12367>>, rulesIn |-> <<>>, rulesOut |-> <<V5>>, reason |-> "conditional"],
     [kanaIn |-> <<12370, 12400>>, kanaOut |-> <<12368>>, rulesIn |-> <<>>, rulesOut |-> <<V5>>, reason |-> "conditional"],
     [kanaIn |-> <<12379, 12400>>, kanaOut |-> <<12377>>, rulesIn |-> <<>>, rulesOut |-> <<V5>>, reason |-> "conditional"],
     [kanaIn |-> <<12390, 12400>>, kanaOut |-> <<12388>>, rulesIn |-> <<>>, rulesOut |-> <<V5>>, reason |-> "conditional"],
     [kanaIn |-> <<12397, 12400>>, kanaOut |-> <<12396>>, rulesIn |-> <<>>, rulesOut |-> <<V5>>, reason |-> "conditional"],
     [kanaIn |-> <<12409, 12400>>, kanaOut |-> <<12406>>, rulesIn |-> <<>>, rulesOut |-> <<V5>>, reason |-> "conditional"],
     [kanaIn |-> <<12417, 12400>>, kanaOut |-> <<12416>>, rulesIn |-> <<>>, rulesOut |-> <<V5>>, reason |-> "conditional"],
     [kanaIn |-> <<12377, 12428, 12400>>, kanaOut |-> <<12377, 12427>>, rulesIn |-> <<>>, rulesOut |-> <<VS>>, reason |-> "conditional"],
     [kanaIn |-> <<12367, 12428, 12400>>, kanaOut |-> <<12367, 12427>>, rulesIn |-> <<>>, rulesOut |-> <<VK>>, reason |-> "conditional"],
     [kanaIn |-> <<12369, 12428, 12400>>, kanaOut |-> <<12356>>, rulesIn |-> <<>>, rulesOut |-> <<ADJ_I>>, reason |-> "conditional"],
     [kanaIn |-> <<12383, 12425>>, kanaOut |-> <<12427>>, rulesIn |-> <<>>, rulesOut |-> <<V1>>, reason |-> "conditional (tara)"],
     [kanaIn |-> <<12356, 12383, 12425>>, kanaOut |-> <<12367>>, rulesIn |-> <<>>, rulesOut |-> <<V5>>, reason |-> "conditional (tara)"],
     [kanaIn |-> <<12356, 12384, 12425>>, kanaOut |-> <<12368>>, rulesIn |-> <<>>, rulesOut |-> <<V5>>, reason |-> "conditional (tara)"],
     [kanaIn |-> <<12375, 12383, 12425>>, kanaOut |-> <<12377>>, rulesIn |-> <<>>, rulesOut |-> <<V5>>, reason |-> "conditional (tara)"],
     [kanaIn |-> <<12387, 12383, 12425>>, kanaOut |-> <<12358>>, rulesIn |-> <<>>, rulesOut |-> <<V5>>, reason |-> "conditional (tara)"],
     [kanaIn |-> <<12387, 12383, 12425>>, kanaOut |-> <<12388>>, rulesIn |-> <<>>, rulesOut |-> <<V5>>, reason |-> "conditional (tara)"],
     [kanaIn |-> <<12387, 12383, 12425>>, kanaOut |-> <<12427>>, rulesIn |-> <<>>, rulesOut |-> <<V5>>, reason |-> "conditional (tara)"],
     [kanaIn |-> <<12435, 12384, 12425>>, kanaOut |-> <<12396>>, rulesIn |-> <<>>, rulesOut |-> <<V5>>, reason |-> "conditional (tara)"],
     [kanaIn |-> <<12435, 12384, 12425>>, kanaOut |-> <<12406>>, rulesIn |-> <<>>, rulesOut |-> <<V5>>, reason |-> "conditional (tara)"],
     [kanaIn |-> <<12435, 12384, 12425>>, kanaOut |-> <<12416>>, rulesIn |-> <<>>, rulesOut |-> <<V5>>, reason |-> "conditional (tara)"],
     [kanaIn |-> <<12375, 12383, 12425>>, kanaOut |-> <<12377, 12427>>, rulesIn |-> <<>>, rulesOut |-> <<VS>>, reason |-> "conditional (tara)"],
     [kanaIn |-> <<12365, 12383, 12425>>, kanaOut |-> <<12367, 12427>>, rulesIn |-> <<>>, rulesOut |-> <<VK>>, reason |-> "conditional (tara)"],
     [kanaIn |-> <<12363, 12387, 12383, 12425>>, kanaOut |-> <<12356>>, rulesIn |-> <<>>, rulesOut |-> <<ADJ_I>>, reason |-> "conditional (tara)"],
     [kanaIn |-> <<12367>>, kanaOut |-> <<12356>>, rulesIn |-> <<>>, rulesOut |-> <<ADJ_I>>, reason |-> "adverb"],
     [kanaIn |-> <<12367, 12390>>, kanaOut |-> <<12356>>, rulesIn |-> <<>>, rulesOut |-> <<ADJ_I>>, reason |-> "te-form"],
     [kanaIn |-> <<12385, 12419, 12358>>, kanaOut |-> <<12427>>, rulesIn |-> <<>>, rulesOut |-> <<V1>>, reason |-> "shimau contraction"],
     [kanaIn |-> <<12356, 12385, 12419, 12358>>, kanaOut |-> <<12367>>, rulesIn |-> <<>>, rulesOut |-> <<V5>>, reason |-> "shimau contraction"],
     [kanaIn |-> <<12356, 12376, 12419, 12358>>, kanaOut |-> <<12368>>, rulesIn |-> <<>>, rulesOut |-> <<V5>>, reason |-> "shimau contraction"],
     [kanaIn |-> <<12375, 12385, 12419, 12358>>, kanaOut |-> <<12377>>, rulesIn |-> <<>>, rulesOut |-> <<V5>>, reason |-> "shimau contraction"],
     [kanaIn |-> <<12387, 12385, 12419, 12358>>, kanaOut |-> <<12358>>, rulesIn |-> <<>>, rulesOut |-> <<V5>>, reason |-> "shimau contraction"],
     [kanaIn |-> <<12387, 12385, 12419, 12358>>, kanaOut |-> <<12388>>, rulesIn |-> <<>>, rulesOut |-> <<V5>>, reason |-> "shimau contraction"],
     [kanaIn |-> <<12387, 12385, 12419, 12358>>, kanaOut |-> <<12427>>, rulesIn |-> <<>>, rulesOut |-> <<V5>>, reason |-> "shimau contraction"],
     [kanaIn |-> <<12435, 12376, 12419, 12358>>, kanaOut |-> <<12396>>, rulesIn |-> <<>>, rulesOut |-> <<V5>>, reason |-> "shimau contraction"],
     [kanaIn |-> <<12435, 12376, 12419, 12358>>, kanaOut |-> <<12406>>, rulesIn |-> <<>>, rulesOut |-> <<V5>>, reason |-> "shimau contraction"],
     [kanaIn |-> <<12435, 12376, 12419, 12358>>, kanaOut |-> <<12416>>, rulesIn |-> <<>>, rulesOut |-> <<V5>>, reason |-> "shimau contraction"],
     [kanaIn |-> <<12375, 12385, 12419, 12358>>, kanaOut |-> <<12377, 12427>>, rulesIn |-> <<>>, rulesOut |-> <<VS>>, reason |-> "shimau contraction"],
     [kanaIn |-> <<12365, 12385, 12419, 12358>>, kanaOut |-> <<12367, 12427>>, rulesIn |-> <<>>, rulesOut |-> <<VK>>, reason |-> "shimau contraction"],
     [kanaIn |-> <<12385, 12419, 12387, 12383>>, kanaOut |-> <<12427>>, rulesIn |-> <<>>, rulesOut |-> <<V1>>, reason |-> "shimau contraction (past)"],
     [kanaIn |-> <<12356, 12385, 12419, 12387, 12383>>, kanaOut |-> <<12367>>, rulesIn |-> <<>>, rulesOut |-> <<V5>>, reason |-> "shimau contraction (past)"],
     [kanaIn |-> <<12356, 12376, 12419, 12387, 12383>>, kanaOut |-> <<12368>>, rulesIn |-> <<>>, rulesOut |-> <<V5>>, reason |-> "shimau contraction (past)"],
     [kanaIn |-> <<12375, 12385, 12419, 12387, 12383>>, kanaOut |-> <<12377>>, rulesIn |-> <<>>, rulesOut |-> <<V5>>, reason |-> "shimau contraction (past)"],
     [kanaIn |-> <<12387, 12385, 12419, 12387, 12383>>, kanaOut |-> <<12358>>, rulesIn |-> <<>>, rulesOut |-> <<V5>>, reason |-> "shimau contraction (past)"],
     [kanaIn |-> <<12387, 12385, 12419, 12387, 12383>>, kanaOut |-> <<12388>>, rulesIn |-> <<>>, rulesOut |-> <<V5>>, reason |-> "shimau contraction (past)"],
     [kanaIn |-> <<12387, 12385, 12419, 12387, 12383>>, kanaOut |-> <<12427>>, rulesIn |-> <<>>, rulesOut |-> <<V5>>, reason |-> "shimau contraction (past)"],
     [kanaIn |-> <<12435, 12376, 12419, 12387, 12383>>, kanaOut |-> <<12396>>, rulesIn |-> <<>>, rulesOut |-> <<V5>>, reason |-> "shimau contraction (past)"],
     [kanaIn |-> <<12435, 12376, 12419, 12387, 12383>>, kanaOut |-> <<12406>>, rulesIn |-> <<>>, rulesOut |-> <<V5>>, reason |-> "shimau contraction (past)"],
     [kanaIn |-> <<12435, 12376, 12419, 12387, 12383>>, kanaOut |-> <<12416>>, rulesIn |-> <<>>, rulesOut |-> <<V5>>, reason |-> "shimau contraction (past)"],
     [kanaIn |-> <<12375, 12385, 12419, 12387, 12383>>, kanaOut |-> <<12377, 12427>>, rulesIn |-> <<>>, rulesOut |-> <<VS>>, reason |-> "shimau contraction (past)"],
     [kanaIn |-> <<12365, 12385, 12419, 12387, 12383>>, kanaOut |-> <<12367, 12427>>, rulesIn |-> <<>>, rulesOut |-> <<VK>>, reason |-> "shimau contraction (past)"],
     [kanaIn |-> <<12394, 12363, 12387, 12383>>, kanaOut |-> <<12427>>, rulesIn |-> <<>>, rulesOut |-> <<V1>>, reason |-> "past negative"],
     [kanaIn |-> <<12363, 12394, 12363, 12387, 12383>>, kanaOut |-> <<12367>>, rulesIn |-> <<>>, rulesOut |-> <<V5>>, reason |-> "past negative"],
     [kanaIn |-> <<12364, 12394, 12363, 12387, 12383>>, kanaOut |-> <<12368>>, rulesIn |-> <<>>, rulesOut |-> <<V5>>, reason |-> "past negative"],
     [kanaIn |-> <<12373, 12394, 12363, 12387, 12383>>, kanaOut |-> <<12377>>, rulesIn |-> <<>>, rulesOut |-> <<V5>>, reason |-> "past negative"],
     [kanaIn |-> <<12383, 12394, 12363, 12387, 12383>>, kanaOut |-> <<12388>>, rulesIn |-> <<>>, rulesOut |-> <<V5>>, reason |-> "past negative"],
     [kanaIn |-> <<12394, 12394, 12363, 12387, 12383>>, kanaOut |-> <<12396>>, rulesIn |-> <<>>, rulesOut |-> <<V5>>, reason |-> "past negative"],
     [kanaIn |-> <<12400, 12394, 12363, 12387, 12383>>, kanaOut |-> <<12406>>, rulesIn |-> <<>>, rulesOut |-> <<V5>>, reason |-> "past negative"],
     [kanaIn |-> <<12414, 12394, 12363, 12387, 12383>>, kanaOut |-> <<12416>>, rulesIn |-> <<>>, rulesOut |-> <<V5>>, reason |-> "past negative"],
     [kanaIn |-> <<12425, 12394, 12363, 12387, 12383>>, kanaOut |-> <<12427>>, rulesIn |-> <<>>, rulesOut |-> <<V5>>, reason |-> "past negative"],
     [kanaIn |-> <<12431, 12394, 12363, 12387, 12383>>, kanaOut |-> <<12358>>, rulesIn |-> <<>>, rulesOut |-> <<V5>>, reason |-> "past negative"],
     [kanaIn |-> <<12375, 12394, 12363, 12387, 12383>>, kanaOut |-> <<12377, 12427>>, rulesIn |-> <<>>, rulesOut |-> <<VS>>, reason |-> "past negative"],
     [kanaIn |-> <<12371, 12394, 12363, 12387, 12383>>, kanaOut |-> <<12367, 12427>>, rulesIn |-> <<>>, rulesOut |-> <<VK>>, reason |-> "past negative"],
     [kanaIn |-> <<12367, 12394, 12363, 12387, 12383>>, kanaOut |-> <<12356>>, rulesIn |-> <<>>, rulesOut |-> <<ADJ_I>>, reason |-> "past negative"]
  >>

----------------------------------------------------------------------------
(* deinflect *)

\* mutant: a rule applies only when a stem is left in front of the suffix
RuleApplies_NeedsStem(term, rule) ==
  endsWith(term, rule.kanaIn) /\ Len(term) > Len(rule.kanaIn)

\* current.term.endsWith(rule.kanaIn)
RuleApplies(term, rule) == endsWith(term, rule.kanaIn)

\* current.term.slice(0, current.term.length - rule.kanaIn.length) + rule.kanaOut
NewTerm(term, rule) ==
  slice0(term, Len(term) - Len(rule.kanaIn)) \o rule.kanaOut

\* mutant: the visited set is not consulted
IsNew_IgnoresSeen(newTerm, seen) == Len(newTerm) > 0

\* newTerm.length > 0 && !seen.has(newTerm)
IsNew(newTerm, seen) == Len(newTerm) > 0 /\ newTerm \notin seen

\* mutant: the rule's reason is not appended
NewResult_DropsReason(current, newTerm, rule) ==
  [term |-> newTerm,
   rules |-> current.rules \o rule.rulesOut,
   reasons |-> current.reasons]

\* mutant: the rule's classes are not appended
NewResult_DropsClasses(current, newTerm, rule) ==
  [term |-> newTerm,
   rules |-> current.rules,
   reasons |-> Append(current.reasons, rule.reason)]

\* the result pushed for one applied rule
NewResult(current, newTerm, rule) ==
  [term |-> newTerm,
   rules |-> current.rules \o rule.rulesOut,
   reasons |-> Append(current.reasons, rule.reason)]

\* mutant: the original word is queued but not pushed to results
BfsInit_NoOriginal(w) ==
  [results |-> <<>>,
   seen |-> {w},
   queue |-> << [term |-> w, rules |-> <<>>, reasons |-> <<>>] >>]

\* mutant: nothing is set up for the empty string, which yields no candidate
BfsInit_NothingForEmpty(w) ==
  IF w = <<>>
  THEN [results |-> <<>>, seen |-> {}, queue |-> <<>>]
  ELSE [results |-> << [term |-> w, rules |-> <<>>, reasons |-> <<>>] >>,
        seen |-> {w},
        queue |-> << [term |-> w, rules |-> <<>>, reasons |-> <<>>] >>]

\* the state after construction of results, seen and queue
BfsInit(w) ==
  [results |-> << [term |-> w, rules |-> <<>>, reasons |-> <<>>] >>,
   seen |-> {w},
   queue |-> << [term |-> w, rules |-> <<>>, reasons |-> <<>>] >>]

\* the rules the for-of loop finds applicable to a term, in table order
MatchingRules(term) ==
  SelectSeq(DEINFLECTION_RULES, LAMBDA rule : RuleApplies(term, rule))

\* the body of the for-of loop over DEINFLECTION_RULES for one dequeued
\* candidate, run over its applicable rules from the j-th on (a rule that does
\* not apply changes nothing)
RECURSIVE ApplyRules(_, _, _, _)
ApplyRules(current, matching, j, st) ==
  IF j > Len(matching) THEN st
  ELSE LET rule == matching[j]
           newTerm == NewTerm(current.term, rule)
           newResult == NewResult(current, newTerm, rule)
       IN IF IsNew(newTerm, st.seen)
          THEN ApplyRules(current, matching, j + 1,
                 [results |-> Append(st.results, newResult),
                  seen |-> st.seen \cup {newTerm},
                  queue |-> Append(st.queue, newResult)])
          ELSE ApplyRules(current, matching, j + 1, st)

\* queue.shift(): what is left of the queue
Shift(queue) == Tail(queue)

\* mutant: the candidate is taken from the end of the queue
WhileIter_Pop(st) ==
  ApplyRules(st.queue[Len(st.queue)], MatchingRules(st.queue[Len(st.queue)].term), 1,
             [results |-> st.results, seen |-> st.seen,
              queue |-> SubSeq(st.queue, 1, Len(st.queue) - 1)])

\* one iteration of the while loop
WhileIter(st) ==
  ApplyRules(Head(st.queue), MatchingRules(Head(st.queue).term), 1,
             [results |-> st.results, seen |-> st.seen, queue |-> Shift(st.queue)])

\* the while loop, run to its end
RECURSIVE WhileLoop(_)
WhileLoop(st) == IF Len(st.queue) > 0 THEN WhileLoop(WhileIter(st)) ELSE st

\* deinflect(word), as a function of its argument
deinflect(w) == WhileLoop(BfsInit(w)).results

----------------------------------------------------------------------------
(* Array.prototype.sort: a stable sort.  The comparator is given as the     *)
(* table c of its values, c[i, j] for the elements at places i and j of the *)
(* array.  Each element is inserted behind the last element that the        *)
(* comparator does not put after it.                                        *)

\* sorted holds places of the array; the place x is inserted into it
InsertSorted(sorted, x, c) ==
  LET notAfter == {j \in 1..Len(sorted) : c[sorted[j], x] <= 0}
      p == IF notAfter = {} THEN 0
           ELSE CHOOSE j \in notAfter : \A i \in notAfter : i <= j
  IN SubSeq(sorted, 1, p) \o <<x>> \o SubSeq(sorted, p + 1, Len(sorted))

SortBy(arr, c) ==
  LET F[n \in 0..Len(arr)] ==
        IF n = 0 THEN <<>> ELSE InsertSorted(F[n - 1], n, c)
  IN [i \in 1..Len(arr) |-> arr[F[Len(arr)][i]]]

----------------------------------------------------------------------------
(* The Dictionary Index *)

\* mutant: every row is returned, whatever the key
getAllFromIndex_All(rows, index, key) ==
  [i \in 1..Cardinality(rows) |->
     CHOOSE r \in rows : Cardinality({q \in rows : q.id < r.id}) = i - 1]

\* db.getAllFromIndex('terms', index, key): the rows whose indexed field
\* equals the key, in primary-key (id) order
getAllFromIndex(rows, index, key) ==
  LET hit == {r \in rows : r[index] = key}
  IN [i \in 1..Cardinality(hit) |->
        CHOOSE r \in hit : Cardinality({q \in hit : q.id < r.id}) = i - 1]

\* the loop that keeps the first row of every sequence number
RECURSIVE DedupBySequence(_, _, _)
DedupBySequence(list, seen, out) ==
  IF list = <<>> THEN out
  ELSE IF Head(list).sequence \notin seen
       THEN DedupBySequence(Tail(list), seen \cup {Head(list).sequence},
                            Append(out, Head(list)))
       ELSE DedupBySequence(Tail(list), seen, out)

\* mutant: the scores are compared the other way round
ByScore_Ascending(a, b) == a.score - b.score

\* (a, b) => b.score - a.score
ByScore(a, b) == b.score - a.score

lookupByTermOrReading(rows, text) ==
  LET byTerm == getAllFromIndex(rows, "term", text)
      byReading == getAllFromIndex(rows, "reading", text)
      found == DedupBySequence(byTerm \o byReading, {}, <<>>)
  IN SortBy(found, [i, j \in 1..Len(found) |-> ByScore(found[i], found[j])])

----------------------------------------------------------------------------
(* validateDeinflection *)

\* mutant: only the entry's rules are tested, not its tags
ClassMatches_RulesOnly(rule, entryRules, entryTags) ==
  \/ includes(entryRules, rule)
  \/ rule = V5 /\ \E i \in 1..Len(entryRules) : startsWith(entryRules[i], V5)

\* the tests made for one class of the chain, inside the for-of loop
ClassMatches(rule, entryRules, entryTags) ==
  \/ includes(entryRules, rule)
  \/ rule = V5 /\ \E i \in 1..Len(entryRules) : startsWith(entryRules[i], V5)
  \/ includes(entryTags, rule)
  \/ rule = V5 /\ \E i \in 1..Len(entryTags) : startsWith(entryTags[i], V5)
  \/ rule = V1 /\ includes(entryTags, V1)
  \/ rule = ADJ_I /\ includes(entryTags, ADJ_I)

\* mutant: the loop gives its verdict on the first class of the chain
ChainMatches_FirstOnly(rules, entryRules, entryTags) ==
  ClassMatches(rules[1], entryRules, entryTags)

\* the for-of loop over deinflection.rules: true at the first class that matches
ChainMatches(rules, entryRules, entryTags) ==
  \E i \in 1..Len(rules) : ClassMatches(rules[i], entryRules, entryTags)

\* mutant: no early return for an empty chain
validateDeinflection_NoEmptyChainBypass(deinflection, entry) ==
  LET entryRules == tokens(entry.rules)
  IN IF Len(entryRules) = 0 THEN TRUE
     ELSE ChainMatches(deinflection.rules, entryRules, tokens(entry.tags))

validateDeinflection(deinflection, entry) ==
  IF Len(deinflection.rules) = 0 THEN TRUE
  ELSE LET entryRules == tokens(entry.rules)
       IN IF Len(entryRules) = 0 THEN TRUE
          ELSE ChainMatches(deinflection.rules, entryRules, tokens(entry.tags))

----------------------------------------------------------------------------
(* convertToLookupResult *)

\* all glossary lines of all definitions, in order
RECURSIVE AllGlossary(_)
AllGlossary(definitions) ==
  IF definitions = <<>> THEN <<>>
  ELSE Head(definitions).glossary \o AllGlossary(Tail(definitions))

\* if (glossary && !definitions.includes(glossary)) definitions.push(glossary)
RECURSIVE PushNew(_, _)
PushNew(lines, out) ==
  IF lines = <<>> THEN out
  ELSE IF Head(lines) # "" /\ ~includes(out, Head(lines))
       THEN PushNew(Tail(lines), Append(out, Head(lines)))
       ELSE PushNew(Tail(lines), out)

\* mutant: the path is taken from the chain of grammar classes
convertToLookupResult_PathOfClasses(selectedWord, deinflection, entry, matchLength, n) ==
  [selectedWord |-> selectedWord,
   dictionaryForm |-> entry.term,
   reading |-> entry.reading,
   partOfSpeech |->
     IF Len(entry.definitions) > 0 /\ Len(entry.definitions[1].partOfSpeech) > 0
     THEN entry.definitions[1].partOfSpeech ELSE <<>>,
   definitions |-> PushNew(AllGlossary(entry.definitions), <<>>),
   inflectionPath |-> deinflection.rules,
   score |-> entry.score,
   matchLength |-> IF matchLength = <<>> THEN Len(selectedWord) ELSE matchLength[1],
   sequence |-> entry.sequence,
   discovered |-> n]

\* The fields of a LookupResult, and two history fields the code does not
\* have: sequence (of the entry the result was built from) and discovered
\* (its position in discovery order).  No operation reads them.  The optional
\* argument matchLength is <<>> when it is not passed, <<n>> when it is n.
convertToLookupResult(selectedWord, deinflection, entry, matchLength, n) ==
  [selectedWord |-> selectedWord,
   dictionaryForm |-> entry.term,
   reading |-> entry.reading,
   partOfSpeech |->
     IF Len(entry.definitions) > 0 /\ Len(entry.definitions[1].partOfSpeech) > 0
     THEN entry.definitions[1].partOfSpeech ELSE <<>>,
   definitions |-> PushNew(AllGlossary(entry.definitions), <<>>),
   inflectionPath |-> deinflection.reasons,
   score |-> entry.score,
   matchLength |-> IF matchLength = <<>> THEN Len(selectedWord) ELSE matchLength[1],
   sequence |-> entry.sequence,
   discovered |-> n]

----------------------------------------------------------------------------
(* lookupWord *)

\* mutant: the hint is taken as it was given
NormalizedHint_AsGiven(hint) ==
  IF Len(hint) = 1 /\ Len(hint[1]) > 0 THEN <<hint[1]>> ELSE <<>>

\* readingHint ? katakanaToHiragana(readingHint) : undefined
NormalizedHint(hint) ==
  IF Len(hint) = 1 /\ Len(hint[1]) > 0 THEN <<katakanaToHiragana(hint[1])>> ELSE <<>>

\* the merge loop: a hiragana candidate is pushed unless its term is there
RECURSIVE MergeCandidates(_, _)
MergeCandidates(list, more) ==
  IF more = <<>> THEN list
  ELSE IF \E i \in 1..Len(list) : list[i].term = Head(more).term
       THEN MergeCandidates(list, Tail(more))
       ELSE MergeCandidates(Append(list, Head(more)), Tail(more))

\* the candidates of lookupWord: deinflect(word), then those of the hiragana
\* form of word when that differs from word
Candidates(w) ==
  LET hiraganaWord == katakanaToHiragana(w)
  IN IF hiraganaWord # w
     THEN MergeCandidates(deinflect(w), deinflect(hiraganaWord))
     ELSE deinflect(w)

\* mutant: no entry is ever skipped as seen
AlreadySeen_Never(entry, seen) == FALSE

\* seenSequences.has(entry.sequence)
AlreadySeen(entry, seen) == entry.sequence \in seen

\* mutant: the sequence is marked as seen before the entry is validated
RECURSIVE ForEntries_SeenBeforeValidation(_, _, _, _, _)
ForEntries_SeenBeforeValidation(w, deinflection, entries, matchLength, st) ==
  IF entries = <<>> THEN st
  ELSE LET entry == Head(entries)
           ok == validateDeinflection(deinflection, entry)
       IN IF AlreadySeen(entry, st.seenSequences)
          THEN ForEntries_SeenBeforeValidation(w, deinflection, Tail(entries), matchLength, st)
          ELSE IF ~ok
          THEN ForEntries_SeenBeforeValidation(w, deinflection, Tail(entries), matchLength,
                 [st EXCEPT !.seenSequences = @ \cup {entry.sequence},
                            !.validated =
                    Append(@, [rules |-> deinflection.rules, reasons |-> deinflection.reasons,
                               entry |-> entry, ok |-> FALSE])])
          ELSE ForEntries_SeenBeforeValidation(w, deinflection, Tail(entries), matchLength,
                 [results |-> Append(st.results,
                    convertToLookupResult(w, deinflection, entry, matchLength,
                                          Len(st.results) + 1)),
                  seenSequences |-> st.seenSequences \cup {entry.sequence},
                  validated |->
                    Append(st.validated,
                           [rules |-> deinflection.rules, reasons |-> deinflection.reasons,
                            entry |-> entry, ok |-> TRUE])])

\* the loop over the entries returned for one candidate; matchLength is the
\* argument passed on to convertToLookupResult; st holds results,
\* seenSequences and the history of validator calls
RECURSIVE ForEntries(_, _, _, _, _)
ForEntries(w, deinflection, entries, matchLength, st) ==
  IF entries = <<>> THEN st
  ELSE LET entry == Head(entries)
           ok == validateDeinflection(deinflection, entry)
       IN IF AlreadySeen(entry, st.seenSequences)
          THEN ForEntries(w, deinflection, Tail(entries), matchLength, st)
          ELSE IF ~ok
          THEN ForEntries(w, deinflection, Tail(entries), matchLength,
                 [st EXCEPT !.validated =
                    Append(@, [rules |-> deinflection.rules, reasons |-> deinflection.reasons,
                               entry |-> entry, ok |-> FALSE])])
          ELSE ForEntries(w, deinflection, Tail(entries), matchLength,
                 [results |-> Append(st.results,
                    convertToLookupResult(w, deinflection, entry, matchLength,
                                          Len(st.results) + 1)),
                  seenSequences |-> st.seenSequences \cup {entry.sequence},
                  validated |->
                    Append(st.validated,
                           [rules |-> deinflection.rules, reasons |-> deinflection.reasons,
                            entry |-> entry, ok |-> TRUE])])

\* mutant: the reading is compared as stored, not in hiragana
Matches_RawReading(r, normalizedHint) == r.reading = normalizedHint[1]

\* whether a result's reading, in hiragana, is the normalized hint
Matches(r, normalizedHint) == katakanaToHiragana(r.reading) = normalizedHint[1]

\* the comparator of lookupWord's sort
LookupCompare(a, b, normalizedHint) ==
  IF normalizedHint # <<>> /\ Matches(a, normalizedHint) /\ ~Matches(b, normalizedHint)
  THEN -1
  ELSE IF normalizedHint # <<>> /\ ~Matches(a, normalizedHint) /\ Matches(b, normalizedHint)
  THEN 1
  ELSE b.score - a.score

\* results.sort(...)
SortResults(list, normalizedHint) ==
  SortBy(list, [i, j \in 1..Len(list) |-> LookupCompare(list[i], list[j], normalizedHint)])

----------------------------------------------------------------------------
(* lookupWordWithSubstrings and lookupWordBest *)

\* maxLength: number = 20
DefaultMaxLength == 20

Min(a, b) == IF a <= b THEN a ELSE b

\* String.prototype.slice(from, to), for 0 <= from: the code units at the
\* positions from .. to - 1 that the string has
slice(s, from, to) == SubSeq(s, from + 1, Min(to, Len(s)))

\* the characters of the class [。！？\n\r]
SentenceEnd == {12290, 65281, 65311, 10, 13}

\* mutant: the line breaks are not in the class
HasSentenceEnd_NoLineBreak(s) == \E i \in 1..Len(s) : s[i] \in {12290, 65281, 65311}

\* /[。！？\n\r]/.test(s)
HasSentenceEnd(s) == \E i \in 1..Len(s) : s[i] \in SentenceEnd

\* the first value of len: endIndex - startIndex
FirstLength(t, start, max) == Min(start + max, Len(t)) - start

\* mutant: the match length is not compared
SubstringCompare_NoLength(a, b, normalizedHint) ==
  LookupCompare(a, b, normalizedHint)

\* the comparator of lookupWordWithSubstrings' sort
SubstringCompare(a, b, normalizedHint) ==
  IF b.matchLength - a.matchLength # 0
  THEN b.matchLength - a.matchLength
  ELSE LookupCompare(a, b, normalizedHint)

\* results.sort(...)
SortSubstringResults(list, normalizedHint) ==
  SortBy(list, [i, j \in 1..Len(list) |-> SubstringCompare(list[i], list[j], normalizedHint)])

\* mutant: the last result is taken
Best_Last(list) == IF Len(list) > 0 THEN <<list[Len(list)]>> ELSE <<>>

\* results.length > 0 ? results[0] : null, where <<>> is null and <<r>> is
\* the result r
Best(list) == IF Len(list) > 0 THEN <<list[1]>> ELSE <<>>

----------------------------------------------------------------------------
(* Inputs *)

\* the characters input words are made of: hiragana be, na, i, te, ta, ru
Alphabet == {12409, 12394, 12356, 12390, 12383, 12427}

Taberu == <<39135, 12409, 12427>>              \* kanji 'eat' + be ru
Tabenai == <<39135, 12409, 12394, 12356>>      \* kanji 'eat' + be na i
Tabu == <<39135, 12406>>                       \* kanji 'eat' + bu
KanaTaberu == <<12383, 12409, 12427>>          \* ta be ru, hiragana
KanaTabenai == <<12383, 12409, 12394, 12356>>  \* ta be na i, hiragana
KanaTabu == <<12383, 12406>>                   \* ta bu, hiragana
KataTaberu == <<12479, 12505, 12523>>          \* ta be ru, katakana
KataTabenai == <<12479, 12505, 12490, 12452>>  \* ta be na i, katakana
KanaHaberu == <<12399, 12409, 12427>>          \* ha be ru, hiragana
Taberareru == <<39135, 12409, 12425, 12428, 12427>>  \* kanji 'eat' + be ra re ru
KanaTabereba == <<12383, 12409, 12428, 12400>>  \* ta be re ba, hiragana

\* the words given to deinflect: every string over Alphabet up to MaxLen, and
\* four more words
Words ==
  UNION {[1..n -> Alphabet] : n \in 0..MaxLen} \cup {Tabenai, Taberu, Taberareru, KanaTabereba}

\* the words given to lookupWord
LookupWords ==
  {Tabenai, KanaTabenai, KataTabenai, Taberu,
   <<39135, 12409, 12383>>,                    \* kanji 'eat' + be ta
   <<12394, 12356>>}                           \* na i

\* the reading hints given to lookupWord: none, the empty string, a reading
\* in hiragana, the same reading in katakana
Hints == {<<>>, << <<>> >>, <<KanaTaberu>>, <<KataTaberu>>}

ToEat == << [glossary |-> <<"to eat", "to live on", "to eat">>,
             partOfSpeech |-> <<"verb">>] >>

\* The rows a dictionary store is filled from.  A reading is never empty: the
\* loader stores the term as the reading of a kana-only word.
Pool ==
  { \* rules 'v1'
    [id |-> 1, term |-> Taberu, reading |-> KanaTaberu, tags |-> <<>>,
     rules |-> V1, score |-> 100, definitions |-> ToEat, sequence |-> 1001],
    \* no rules, no tags: the literal entry of an inflected form
    [id |-> 2, term |-> Tabenai, reading |-> KanaTabenai, tags |-> <<>>,
     rules |-> <<>>, score |-> 50, definitions |-> <<>>, sequence |-> 1002],
    \* no rules, tags 'n'; katakana reading; same term and score as row 1
    [id |-> 3, term |-> Taberu, reading |-> KataTaberu, tags |-> <<110>>,
     rules |-> <<>>, score |-> 100, definitions |-> ToEat, sequence |-> 1003],
    \* rules 'v5b'
    [id |-> 4, term |-> Tabu, reading |-> KanaTabu, tags |-> <<>>,
     rules |-> <<118, 53, 98>>, score |-> 10, definitions |-> ToEat, sequence |-> 1004],
    \* rules 'vs', tags ' n': another reading of the term of row 1
    [id |-> 5, term |-> Taberu, reading |-> KanaHaberu, tags |-> <<32, 110>>,
     rules |-> VS, score |-> 200, definitions |-> ToEat, sequence |-> 1005],
    \* rules 'vk', tags 'v5b n': a second row of sequence 1001
    [id |-> 6, term |-> Tabu, reading |-> KanaTaberu, tags |-> <<118, 53, 98, 32, 110>>,
     rules |-> VK, score |-> 100, definitions |-> ToEat, sequence |-> 1001],
    \* the kanji alone: no rules, no tags, the highest score
    [id |-> 7, term |-> <<39135>>, reading |-> <<12375, 12423, 12367>>, tags |-> <<>>,
     rules |-> <<>>, score |-> 300, definitions |-> ToEat, sequence |-> 1007],
    \* a kana-only word (reading = term); rules 'vs', tags 'v1'
    [id |-> 8, term |-> KanaTaberu, reading |-> KanaTaberu, tags |-> V1,
     rules |-> VS, score |-> 5, definitions |-> ToEat, sequence |-> 1008] }

\* the contents of the store: up to MaxEntries rows of the pool
Dictionaries == {rows \in SUBSET Pool : Cardinality(rows) <= MaxEntries}

\* the words given to lookupWordBest
BestWords == {Tabenai, <<12394, 12356>>}

\* the failures an IndexedDB request can end with
StoreErrors == {"InvalidStateError", "AbortError"}

\* 'tabenai', an ideographic full stop, the kanji 'eat'
Sentence == <<39135, 12409, 12394, 12356, 12290, 39135>>

\* 'tabero u': its first three characters are the imperative of 'taberu'
Tabero == <<39135, 12409, 12429, 12358>>

\* 'taberu' in katakana, a line feed
KataLine == <<12479, 12505, 12523, 10>>

\* the arguments text, startIndex and maxLength given to
\* lookupWordWithSubstrings
SubstringCalls ==
  {[text |-> Sentence, startIndex |-> 0, maxLength |-> DefaultMaxLength],
   [text |-> Sentence, startIndex |-> 0, maxLength |-> 2],
   [text |-> Sentence, startIndex |-> 4, maxLength |-> DefaultMaxLength],
   [text |-> Sentence, startIndex |-> 6, maxLength |-> DefaultMaxLength],
   [text |-> KataLine, startIndex |-> 0, maxLength |-> DefaultMaxLength],
   [text |-> Tabero, startIndex |-> 0, maxLength |-> DefaultMaxLength]}

\* the reading hints given to lookupWordWithSubstrings
SubstringHints == {<<>>, <<KataTaberu>>}

NoBfs == [results |-> <<>>, seen |-> {}, queue |-> <<>>]

----------------------------------------------------------------------------
(* The calls *)

\* no call has been made
Init ==
  /\ op = "none"
  /\ word = <<>>
  /\ readingHint = <<>>
  /\ db = {}
  /\ pc = "idle"
  /\ bfs = NoBfs
  /\ deinflectionResults = <<>>
  /\ k = 1
  /\ results = <<>>
  /\ seenSequences = {}
  /\ validated = <<>>
  /\ iterations = 0
  /\ ret = <<>>
  /\ inputText = <<>>
  /\ startIndex = 0
  /\ maxLength = 0
  /\ len = 0
  /\ queries = <<>>
  /\ tried = <<>>
  /\ error = "none"
  /\ first = <<>>
  /\ kuroshiroInstance = "null"
  /\ initPromise = "null"
  /\ kuroshiroInit = "none"
  /\ initCalls = [c \in 1..MaxCallers |-> "none"]
  /\ revision = "null"
  /\ version = "null"
  /\ terms = {}
  /\ bundledVersion = "null"
  /\ bank = 0
  /\ loadPc = "idle"
  /\ loadError = [kind |-> "none", bank |-> 0]
  /\ status = [kind |-> "none", needsLoad |-> FALSE, currentVersion |-> "null",
               bundledVersion |-> "null"]
  /\ latest = 0
  /\ task = [c \in 1..MaxClicks |-> "none"]
  /\ wordLookupState = [isOpen |-> FALSE, click |-> 0]
  /\ opened = <<>>

\* deinflect(w) is called: results, seen and queue are set up
CallDeinflect ==
  /\ pc = "idle"
  /\ \E w \in Words :
       /\ word' = w
       /\ bfs' = BfsInit(w)
  /\ op' = "deinflect"
  /\ pc' = "bfs"
  /\ UNCHANGED <<readingHint, db, deinflectionResults, k, results,
                 seenSequences, validated, iterations, ret>>
  /\ UNCHANGED substringVars
  /\ UNCHANGED <<queries, error, first>>
  /\ UNCHANGED appVars

\* mutant: the head of the queue is read but not removed
DeinflectStep_NoShift ==
  /\ op = "deinflect" /\ pc = "bfs"
  /\ Len(bfs.queue) > 0
  /\ bfs' = ApplyRules(Head(bfs.queue), MatchingRules(Head(bfs.queue).term), 1, bfs)
  /\ iterations' = iterations + 1
  /\ UNCHANGED <<op, word, readingHint, db, pc, deinflectionResults, k, results,
                 seenSequences, validated, ret>>
  /\ UNCHANGED substringVars
  /\ UNCHANGED <<queries, error, first>>
  /\ UNCHANGED appVars

\* deinflect: one iteration of while (queue.length > 0)
DeinflectStep ==
  /\ op = "deinflect" /\ pc = "bfs"
  /\ Len(bfs.queue) > 0
  /\ bfs' = WhileIter(bfs)
  /\ iterations' = iterations + 1
  /\ UNCHANGED <<op, word, readingHint, db, pc, deinflectionResults, k, results,
                 seenSequences, validated, ret>>
  /\ UNCHANGED substringVars
  /\ UNCHANGED <<queries, error, first>>
  /\ UNCHANGED appVars

\* deinflect: the loop has ended, results is returned
DeinflectReturn ==
  /\ op = "deinflect" /\ pc = "bfs"
  /\ Len(bfs.queue) = 0
  /\ ret' = bfs.results
  /\ pc' = "done"
  /\ UNCHANGED <<op, word, readingHint, db, bfs, deinflectionResults, k, results,
                 seenSequences, validated, iterations>>
  /\ UNCHANGED substringVars
  /\ UNCHANGED <<queries, error, first>>
  /\ UNCHANGED appVars

\* lookupWord(w, hint) is called on a store that holds some rows, and runs up
\* to its first await: the candidates are generated
CallLookupWord ==
  /\ pc = "idle"
  /\ \E w \in LookupWords, hint \in Hints, rows \in Dictionaries :
       /\ word' = w
       /\ readingHint' = hint
       /\ db' = rows
       /\ deinflectionResults' = Candidates(w)
  /\ op' = "lookupWord"
  /\ k' = 1
  /\ results' = <<>>
  /\ seenSequences' = {}
  /\ pc' = "query"
  /\ UNCHANGED <<bfs, validated, iterations, ret>>
  /\ UNCHANGED substringVars
  /\ UNCHANGED <<queries, error, first>>
  /\ UNCHANGED appVars

\* mutant: seenSequences outlives the call
CallLookupWordAgain_KeepsSeen ==
  /\ op = "lookupWord" /\ pc = "done"
  /\ first = <<>>
  /\ first' = <<ret>>
  /\ deinflectionResults' = Candidates(word)
  /\ k' = 1
  /\ results' = <<>>
  /\ pc' = "query"
  /\ validated' = <<>>
  /\ queries' = <<>>
  /\ ret' = <<>>
  /\ UNCHANGED <<op, word, readingHint, db, bfs, iterations, error, seenSequences>>
  /\ UNCHANGED substringVars
  /\ UNCHANGED appVars

\* lookupWord has returned and is called once more, with the same arguments,
\* on the same store; the list it returned is kept in first
CallLookupWordAgain ==
  /\ op = "lookupWord" /\ pc = "done"
  /\ first = <<>>
  /\ first' = <<ret>>
  /\ deinflectionResults' = Candidates(word)
  /\ k' = 1
  /\ results' = <<>>
  /\ seenSequences' = {}
  /\ pc' = "query"
  /\ validated' = <<>>
  /\ queries' = <<>>
  /\ ret' = <<>>
  /\ UNCHANGED <<op, word, readingHint, db, bfs, iterations, error>>
  /\ UNCHANGED substringVars
  /\ UNCHANGED appVars

\* lookupWordBest(w, hint) is called: it calls lookupWord(w, hint)
CallLookupWordBest ==
  /\ pc = "idle"
  /\ \E w \in BestWords, hint \in Hints, rows \in Dictionaries :
       /\ word' = w
       /\ readingHint' = hint
       /\ db' = rows
       /\ deinflectionResults' = Candidates(w)
  /\ op' = "lookupWordBest"
  /\ k' = 1
  /\ results' = <<>>
  /\ seenSequences' = {}
  /\ pc' = "query"
  /\ UNCHANGED <<bfs, validated, iterations, ret>>
  /\ UNCHANGED substringVars
  /\ UNCHANGED <<queries, error, first>>
  /\ UNCHANGED appVars

\* mutant: the loop over the candidates ends at the first one that yields a
\* result
QueryCandidate_StopsAtFirstHit ==
  /\ op \in {"lookupWord", "lookupWordBest"} /\ pc = "query"
  /\ k <= Len(deinflectionResults)
  /\ LET deinflection == deinflectionResults[k]
         entries == lookupByTermOrReading(db, deinflection.term)
         st == ForEntries(word, deinflection, entries, <<>>,
                 [results |-> results, seenSequences |-> seenSequences,
                  validated |-> validated])
     IN /\ results' = st.results
        /\ seenSequences' = st.seenSequences
        /\ validated' = st.validated
        /\ queries' = Append(queries, [len |-> Len(word), term |-> deinflection.term,
                                       rules |-> deinflection.rules,
                                       entries |-> entries, failed |-> "none"])
        /\ k' = IF Len(st.results) > 0 THEN Len(deinflectionResults) + 1 ELSE k + 1
  /\ UNCHANGED <<op, word, readingHint, db, pc, bfs, deinflectionResults, iterations, ret>>
  /\ UNCHANGED substringVars
  /\ UNCHANGED <<error, first>>
  /\ UNCHANGED appVars

\* lookupWord: one iteration of the loop over the candidates, the index
\* query and the loop over its entries
QueryCandidate ==
  /\ op \in {"lookupWord", "lookupWordBest"} /\ pc = "query"
  /\ k <= Len(deinflectionResults)
  /\ LET deinflection == deinflectionResults[k]
         entries == lookupByTermOrReading(db, deinflection.term)
         st == ForEntries(word, deinflection, entries, <<>>,
                 [results |-> results, seenSequences |-> seenSequences,
                  validated |-> validated])
     IN /\ results' = st.results
        /\ seenSequences' = st.seenSequences
        /\ validated' = st.validated
        /\ queries' = Append(queries, [len |-> Len(word), term |-> deinflection.term,
                                       rules |-> deinflection.rules,
                                       entries |-> entries, failed |-> "none"])
        /\ k' = k + 1
  /\ UNCHANGED <<op, word, readingHint, db, pc, bfs, deinflectionResults, iterations, ret>>
  /\ UNCHANGED substringVars
  /\ UNCHANGED <<error, first>>
  /\ UNCHANGED appVars

\* mutant: the failure of the index read is caught and the loop goes on
QueryFails_Caught ==
  /\ op \in {"lookupWord", "lookupWordBest"} /\ pc = "query"
  /\ k <= Len(deinflectionResults)
  /\ \E e \in StoreErrors :
       queries' = Append(queries, [len |-> Len(word), term |-> deinflectionResults[k].term,
                                   rules |-> deinflectionResults[k].rules,
                                   entries |-> <<>>, failed |-> e])
  /\ k' = k + 1
  /\ UNCHANGED <<op, word, readingHint, db, pc, bfs, deinflectionResults, results,
                 seenSequences, validated, iterations, ret>>
  /\ UNCHANGED substringVars
  /\ UNCHANGED <<error, first>>
  /\ UNCHANGED appVars

\* lookupWord: the promise of lookupByTermOrReading is rejected (the store
\* cannot be opened or read); the await throws and nothing catches it, so the
\* call is rejected with the store's failure
QueryFails ==
  /\ op \in {"lookupWord", "lookupWordBest"} /\ pc = "query"
  /\ k <= Len(deinflectionResults)
  /\ \E e \in StoreErrors :
       /\ queries' = Append(queries, [len |-> Len(word), term |-> deinflectionResults[k].term,
                                      rules |-> deinflectionResults[k].rules,
                                      entries |-> <<>>, failed |-> e])
       /\ error' = e
  /\ pc' = "failed"
  /\ UNCHANGED <<op, word, readingHint, db, bfs, deinflectionResults, k, results,
                 seenSequences, validated, iterations, ret>>
  /\ UNCHANGED substringVars
  /\ UNCHANGED first
  /\ UNCHANGED appVars

\* lookupWord: the candidates are exhausted, results is sorted and returned,
\* to the caller or to lookupWordBest
LookupReturn ==
  /\ op \in {"lookupWord", "lookupWordBest"} /\ pc = "query"
  /\ k > Len(deinflectionResults)
  /\ ret' = SortResults(results, NormalizedHint(readingHint))
  /\ pc' = IF op = "lookupWordBest" THEN "best" ELSE "done"
  /\ UNCHANGED <<op, word, readingHint, db, bfs, deinflectionResults, k, results,
                 seenSequences, validated, iterations>>
  /\ UNCHANGED substringVars
  /\ UNCHANGED <<queries, error, first>>
  /\ UNCHANGED appVars

\* lookupWordBest: the list of lookupWord has arrived, its first element or
\* null is returned
BestReturn ==
  /\ op = "lookupWordBest" /\ pc = "best"
  /\ ret' = Best(ret)
  /\ pc' = "done"
  /\ UNCHANGED <<op, word, readingHint, db, bfs, deinflectionResults, k, results,
                 seenSequences, validated, iterations>>
  /\ UNCHANGED substringVars
  /\ UNCHANGED <<queries, error, first>>
  /\ UNCHANGED appVars

\* lookupWordWithSubstrings(t, start, max, hint) is called on a store that
\* holds some rows: results and seenSequences are set up, len gets its first
\* value
CallLookupWordWithSubstrings ==
  /\ pc = "idle"
  /\ \E call \in SubstringCalls, hint \in SubstringHints, rows \in Dictionaries :
       /\ inputText' = call.text
       /\ startIndex' = call.startIndex
       /\ maxLength' = call.maxLength
       /\ len' = FirstLength(call.text, call.startIndex, call.maxLength)
       /\ readingHint' = hint
       /\ db' = rows
  /\ op' = "lookupWordWithSubstrings"
  /\ results' = <<>>
  /\ seenSequences' = {}
  /\ pc' = "length"
  /\ UNCHANGED <<word, bfs, deinflectionResults, k, validated, iterations, ret,
                 queries, tried, error, first>>
  /\ UNCHANGED appVars

\* mutant: the hiragana form of the substring is not tried
NextLength_NoHiraganaForm ==
  /\ op = "lookupWordWithSubstrings" /\ pc = "length"
  /\ len >= 1
  /\ tried' = Append(tried, len)
  /\ LET substring == slice(inputText, startIndex, startIndex + len)
     IN IF HasSentenceEnd(substring)
        THEN /\ len' = len - 1
             /\ UNCHANGED <<word, deinflectionResults, k, pc>>
        ELSE /\ word' = substring
             /\ deinflectionResults' = deinflect(substring)
             /\ k' = 1
             /\ pc' = "query"
             /\ UNCHANGED len
  /\ UNCHANGED <<op, readingHint, db, bfs, results, seenSequences, validated,
                 iterations, ret, inputText, startIndex, maxLength, queries, error, first>>
  /\ UNCHANGED appVars

\* mutant: seenSequences is set up anew for every length
NextLength_FreshSeen ==
  /\ op = "lookupWordWithSubstrings" /\ pc = "length"
  /\ len >= 1
  /\ tried' = Append(tried, len)
  /\ seenSequences' = {}
  /\ LET substring == slice(inputText, startIndex, startIndex + len)
     IN IF HasSentenceEnd(substring)
        THEN /\ len' = len - 1
             /\ UNCHANGED <<word, deinflectionResults, k, pc>>
        ELSE /\ word' = substring
             /\ deinflectionResults' = Candidates(substring)
             /\ k' = 1
             /\ pc' = "query"
             /\ UNCHANGED len
  /\ UNCHANGED <<op, readingHint, db, bfs, results, validated,
                 iterations, ret, inputText, startIndex, maxLength, queries, error, first>>
  /\ UNCHANGED appVars

\* lookupWordWithSubstrings: the head of one iteration of the loop over the
\* lengths, up to its first await: the substring is cut; it is skipped when
\* it holds a sentence end, otherwise its candidates are generated
NextLength ==
  /\ op = "lookupWordWithSubstrings" /\ pc = "length"
  /\ len >= 1
  /\ tried' = Append(tried, len)
  /\ LET substring == slice(inputText, startIndex, startIndex + len)
     IN IF HasSentenceEnd(substring)
        THEN /\ len' = len - 1
             /\ UNCHANGED <<word, deinflectionResults, k, pc>>
        ELSE /\ word' = substring
             /\ deinflectionResults' = Candidates(substring)
             /\ k' = 1
             /\ pc' = "query"
             /\ UNCHANGED len
  /\ UNCHANGED <<op, readingHint, db, bfs, results, seenSequences, validated,
                 iterations, ret, inputText, startIndex, maxLength, queries, error, first>>
  /\ UNCHANGED appVars

\* lookupWordWithSubstrings: one iteration of the loop over the candidates of
\* the substring, the index query and the loop over its entries; after the
\* last candidate the loop over the lengths goes on
SubstringQuery ==
  /\ op = "lookupWordWithSubstrings" /\ pc = "query"
  /\ k <= Len(deinflectionResults)
  /\ LET deinflection == deinflectionResults[k]
         entries == lookupByTermOrReading(db, deinflection.term)
         st == ForEntries(word, deinflection, entries, <<len>>,
                 [results |-> results, seenSequences |-> seenSequences,
                  validated |-> validated])
     IN /\ results' = st.results
        /\ seenSequences' = st.seenSequences
        /\ validated' = st.validated
        /\ queries' = Append(queries, [len |-> len, term |-> deinflection.term,
                                       rules |-> deinflection.rules,
                                       entries |-> entries, failed |-> "none"])
  /\ IF k < Len(deinflectionResults)
     THEN /\ k' = k + 1
          /\ UNCHANGED <<len, pc>>
     ELSE /\ len' = len - 1
          /\ pc' = "length"
          /\ UNCHANGED k
  /\ UNCHANGED <<op, word, readingHint, db, bfs, deinflectionResults, iterations, ret,
                 inputText, startIndex, maxLength, tried, error, first>>
  /\ UNCHANGED appVars

\* lookupWordWithSubstrings: the promise of lookupByTermOrReading is
\* rejected; nothing catches it, the call is rejected with the store's failure
SubstringQueryFails ==
  /\ op = "lookupWordWithSubstrings" /\ pc = "query"
  /\ k <= Len(deinflectionResults)
  /\ \E e \in StoreErrors :
       /\ queries' = Append(queries, [len |-> len, term |-> deinflectionResults[k].term,
                                      rules |-> deinflectionResults[k].rules,
                                      entries |-> <<>>, failed |-> e])
       /\ error' = e
  /\ pc' = "failed"
  /\ UNCHANGED <<op, word, readingHint, db, bfs, deinflectionResults, k, results,
                 seenSequences, validated, iterations, ret>>
  /\ UNCHANGED substringVars
  /\ UNCHANGED first
  /\ UNCHANGED appVars

\* lookupWordWithSubstrings: the lengths are exhausted, results is sorted and
\* returned
SubstringReturn ==
  /\ op = "lookupWordWithSubstrings" /\ pc = "length"
  /\ len < 1
  /\ ret' = SortSubstringResults(results, NormalizedHint(readingHint))
  /\ pc' = "done"
  /\ UNCHANGED <<op, word, readingHint, db, bfs, deinflectionResults, k, results,
                 seenSequences, validated, iterations>>
  /\ UNCHANGED substringVars
  /\ UNCHANGED <<queries, error, first>>
  /\ UNCHANGED appVars

----------------------------------------------------------------------------
(* The furigana generator: initFuriganaGenerator, isFuriganaReady *)

\* the calls of initFuriganaGenerator the model makes
Callers == 1..MaxCallers

\* kuroshiroInstance !== null
isFuriganaReady == kuroshiroInstance # "null"

\* One call of initFuriganaGenerator, up to the promise it returns: an async
\* function that returns without a value gives a fulfilled promise, one that
\* returns initPromise gives a promise that follows it.  A first call runs the
\* async arrow function up to its await: the instance is assigned, then
\* init(analyzer) is started.
CallInitFuriganaGenerator ==
  /\ pc = "idle" \/ op = "initFuriganaGenerator"
  /\ op' = "initFuriganaGenerator"
  /\ pc' = "running"
  /\ \E c \in Callers :
       /\ initCalls[c] = "none"
       /\ IF kuroshiroInstance # "null"
          THEN /\ initCalls' = [initCalls EXCEPT ![c] = "fulfilled"]
               /\ UNCHANGED <<kuroshiroInstance, initPromise, kuroshiroInit>>
          ELSE IF initPromise # "null"
          THEN /\ initCalls' = [initCalls EXCEPT ![c] = initPromise]
               /\ UNCHANGED <<kuroshiroInstance, initPromise, kuroshiroInit>>
          ELSE /\ kuroshiroInstance' = "Kuroshiro"
               /\ kuroshiroInit' = "running"
               /\ initPromise' = "pending"
               /\ initCalls' = [initCalls EXCEPT ![c] = "pending"]
  /\ UNCHANGED <<word, readingHint, db, bfs, deinflectionResults, k, results,
                 seenSequences, validated, iterations, ret, queries, error, first>>
  /\ UNCHANGED substringVars
  /\ UNCHANGED <<loaderVars, handlerVars>>

\* kuroshiroInstance.init(analyzer) is fulfilled: the arrow function ends, and
\* with it initPromise and the promises that follow it
InitFulfilled ==
  /\ op = "initFuriganaGenerator"
  /\ kuroshiroInit = "running"
  /\ kuroshiroInit' = "done"
  /\ initPromise' = "fulfilled"
  /\ initCalls' = [c \in Callers |-> IF initCalls[c] = "pending" THEN "fulfilled" ELSE initCalls[c]]
  /\ UNCHANGED kuroshiroInstance
  /\ UNCHANGED <<op, pc, word, readingHint, db, bfs, deinflectionResults, k, results,
                 seenSequences, validated, iterations, ret, queries, error, first>>
  /\ UNCHANGED substringVars
  /\ UNCHANGED <<loaderVars, handlerVars>>

\* kuroshiroInstance.init(analyzer) is rejected (the analyzer's dictionary
\* files cannot be loaded): the arrow function throws at its await, nothing
\* catches it, kuroshiroInstance keeps the instance
InitRejected ==
  /\ op = "initFuriganaGenerator"
  /\ kuroshiroInit = "running"
  /\ kuroshiroInit' = "failed"
  /\ initPromise' = "rejected"
  /\ initCalls' = [c \in Callers |-> IF initCalls[c] = "pending" THEN "rejected" ELSE initCalls[c]]
  /\ UNCHANGED kuroshiroInstance
  /\ UNCHANGED <<op, pc, word, readingHint, db, bfs, deinflectionResults, k, results,
                 seenSequences, validated, iterations, ret, queries, error, first>>
  /\ UNCHANGED substringVars
  /\ UNCHANGED <<loaderVars, handlerVars>>

----------------------------------------------------------------------------
(* The dictionary loader: loadDictionary, checkDictionaryStatus *)

\* const TERM_BANK_COUNT = 52
TERM_BANK_COUNT == 52

\* the revisions an index.json carries
Revisions == {"2024-01", "2025-01"}

\* A call of loadDictionary on a store that is empty, or holds the term banks
\* of an earlier load and the revision it was loaded from; index.json of the
\* deployment has the revision r.
CallLoadDictionary ==
  /\ pc = "idle"
  /\ op' = "loadDictionary"
  /\ pc' = "running"
  /\ \E r \in Revisions, stored \in Revisions \cup {"null"} :
       /\ revision' = r
       /\ version' = stored
       /\ terms' = IF stored = "null" THEN {} ELSE 1..TERM_BANK_COUNT
  /\ loadPc' = "index"
  /\ UNCHANGED <<bundledVersion, bank, loadError, status>>
  /\ UNCHANGED <<word, readingHint, db, bfs, deinflectionResults, k, results,
                 seenSequences, validated, iterations, ret, queries, error, first>>
  /\ UNCHANGED substringVars
  /\ UNCHANGED <<furiganaVars, handlerVars>>

\* fetch of index.json, lines 85-91
FetchIndex ==
  /\ op = "loadDictionary"
  /\ loadPc = "index"
  /\ \E ok \in BOOLEAN :
       IF ok
       THEN /\ bundledVersion' = revision
            /\ loadPc' = "clear"
            /\ UNCHANGED loadError
       ELSE /\ loadPc' = "failed"
            /\ loadError' = [kind |-> "index", bank |-> 0]
            /\ UNCHANGED bundledVersion
  /\ UNCHANGED <<revision, version, terms, bank, status>>
  /\ UNCHANGED <<op, pc, word, readingHint, db, bfs, deinflectionResults, k, results,
                 seenSequences, validated, iterations, ret, queries, error, first>>
  /\ UNCHANGED substringVars
  /\ UNCHANGED <<furiganaVars, handlerVars>>

\* mutant: the store 'metadata' is not cleared
ClearDictionary_KeepsMetadata ==
  /\ op = "loadDictionary"
  /\ loadPc = "clear"
  /\ \E ok \in BOOLEAN :
       IF ok
       THEN /\ terms' = {}
            /\ bank' = 1
            /\ loadPc' = "fetch"
            /\ UNCHANGED <<version, loadError>>
       ELSE /\ loadPc' = "failed"
            /\ loadError' = [kind |-> "store", bank |-> 0]
            /\ UNCHANGED <<terms, version, bank>>
  /\ UNCHANGED <<revision, bundledVersion, status>>
  /\ UNCHANGED <<op, pc, word, readingHint, db, bfs, deinflectionResults, k, results,
                 seenSequences, validated, iterations, ret, queries, error, first>>
  /\ UNCHANGED substringVars
  /\ UNCHANGED <<furiganaVars, handlerVars>>

\* await clearDictionary(): one transaction clears 'terms' and 'metadata', or
\* it is aborted and clears neither; then the loop starts with i = 1
ClearDictionary ==
  /\ op = "loadDictionary"
  /\ loadPc = "clear"
  /\ \E ok \in BOOLEAN :
       IF ok
       THEN /\ terms' = {}
            /\ version' = "null"
            /\ bank' = 1
            /\ loadPc' = "fetch"
            /\ UNCHANGED loadError
       ELSE /\ loadPc' = "failed"
            /\ loadError' = [kind |-> "store", bank |-> 0]
            /\ UNCHANGED <<terms, version, bank>>
  /\ UNCHANGED <<revision, bundledVersion, status>>
  /\ UNCHANGED <<op, pc, word, readingHint, db, bfs, deinflectionResults, k, results,
                 seenSequences, validated, iterations, ret, queries, error, first>>
  /\ UNCHANGED substringVars
  /\ UNCHANGED <<furiganaVars, handlerVars>>

\* fetch of term_bank_i.json, lines 100-105
FetchTermBank ==
  /\ op = "loadDictionary"
  /\ loadPc = "fetch"
  /\ \E ok \in BOOLEAN :
       IF ok
       THEN /\ loadPc' = "store"
            /\ UNCHANGED loadError
       ELSE /\ loadPc' = "failed"
            /\ loadError' = [kind |-> "term_bank", bank |-> bank]
  /\ UNCHANGED <<revision, bundledVersion, version, terms, bank, status>>
  /\ UNCHANGED <<op, pc, word, readingHint, db, bfs, deinflectionResults, k, results,
                 seenSequences, validated, iterations, ret, queries, error, first>>
  /\ UNCHANGED substringVars
  /\ UNCHANGED <<furiganaVars, handlerVars>>

\* await addDictionaryEntries(entries): the entries of the bank are stored in
\* one transaction, or none is; then i++ and the loop test
AddDictionaryEntries ==
  /\ op = "loadDictionary"
  /\ loadPc = "store"
  /\ \E ok \in BOOLEAN :
       IF ok
       THEN /\ terms' = terms \cup {bank}
            /\ bank' = bank + 1
            /\ loadPc' = IF bank + 1 <= TERM_BANK_COUNT THEN "fetch" ELSE "version"
            /\ UNCHANGED loadError
       ELSE /\ loadPc' = "failed"
            /\ loadError' = [kind |-> "store", bank |-> bank]
            /\ UNCHANGED <<terms, bank>>
  /\ UNCHANGED <<revision, bundledVersion, version, status>>
  /\ UNCHANGED <<op, pc, word, readingHint, db, bfs, deinflectionResults, k, results,
                 seenSequences, validated, iterations, ret, queries, error, first>>
  /\ UNCHANGED substringVars
  /\ UNCHANGED <<furiganaVars, handlerVars>>

\* await setDictionaryVersion(bundledVersion)
SetDictionaryVersion ==
  /\ op = "loadDictionary"
  /\ loadPc = "version"
  /\ \E ok \in BOOLEAN :
       IF ok
       THEN /\ version' = bundledVersion
            /\ loadPc' = "complete"
            /\ UNCHANGED loadError
       ELSE /\ loadPc' = "failed"
            /\ loadError' = [kind |-> "store", bank |-> 0]
            /\ UNCHANGED version
  /\ UNCHANGED <<revision, bundledVersion, terms, bank, status>>
  /\ UNCHANGED <<op, pc, word, readingHint, db, bfs, deinflectionResults, k, results,
                 seenSequences, validated, iterations, ret, queries, error, first>>
  /\ UNCHANGED substringVars
  /\ UNCHANGED <<furiganaVars, handlerVars>>

\* a call of checkDictionaryStatus after loadDictionary has ended: the stored
\* version is read, index.json is fetched, the two are compared
CheckDictionaryStatus ==
  /\ op = "loadDictionary"
  /\ loadPc \in {"complete", "failed"}
  /\ status.kind = "none"
  /\ \E ok \in BOOLEAN :
       status' = IF ok
                 THEN [kind |-> "returned", needsLoad |-> version # revision,
                       currentVersion |-> version, bundledVersion |-> revision]
                 ELSE [kind |-> "threw", needsLoad |-> FALSE,
                       currentVersion |-> version, bundledVersion |-> "null"]
  /\ UNCHANGED <<revision, bundledVersion, version, terms, bank, loadPc, loadError>>
  /\ UNCHANGED <<op, pc, word, readingHint, db, bfs, deinflectionResults, k, results,
                 seenSequences, validated, iterations, ret, queries, error, first>>
  /\ UNCHANGED substringVars
  /\ UNCHANGED <<furiganaVars, handlerVars>>

----------------------------------------------------------------------------
(* The click handler: wordLookupHandler, openWordLookup *)

\* the clicks that pass debounceTime and the filters, numbered in their order
Clicks == 1..MaxClicks

\* openWordLookup(results, sentence, selectedWord); the results are named by
\* the click they were looked up for
openWordLookup(click) == [isOpen |-> TRUE, click |-> click]

\* A click reaches the second switchMap: the subscription to the promise of
\* the click before is dropped, the async function is called for this click
\* and runs up to await getTokenAtPosition.
ClickAccepted ==
  /\ pc = "idle" \/ op = "wordLookupHandler"
  /\ op' = "wordLookupHandler"
  /\ pc' = "running"
  /\ latest < MaxClicks
  /\ latest' = latest + 1
  /\ task' = [task EXCEPT ![latest + 1] = "tokenizing"]
  /\ UNCHANGED <<wordLookupState, opened>>
  /\ UNCHANGED <<word, readingHint, db, bfs, deinflectionResults, k, results,
                 seenSequences, validated, iterations, ret, queries, error, first>>
  /\ UNCHANGED substringVars
  /\ UNCHANGED <<furiganaVars, loaderVars>>

\* getTokenAtPosition settles for a click: without a token, or with one that
\* is not Japanese, the function returns; a rejection ends it; otherwise
\* lookupWord is called and awaited
TokenSettled ==
  /\ op = "wordLookupHandler"
  /\ \E c \in Clicks, outcome \in {"token", "nothing", "rejected"} :
       /\ task[c] = "tokenizing"
       /\ task' = [task EXCEPT ![c] = CASE outcome = "token" -> "looking"
                                        [] outcome = "nothing" -> "returned"
                                        [] OTHER -> "threw"]
  /\ UNCHANGED <<latest, wordLookupState, opened>>
  /\ UNCHANGED <<op, pc, word, readingHint, db, bfs, deinflectionResults, k, results,
                 seenSequences, validated, iterations, ret, queries, error, first>>
  /\ UNCHANGED substringVars
  /\ UNCHANGED <<furiganaVars, loaderVars>>

\* lookupWord settles for a click: with results, openWordLookup is called
\* with them; the function has no test of whether its click is still the one
\* switchMap is subscribed to
LookupSettled ==
  /\ op = "wordLookupHandler"
  /\ \E c \in Clicks, outcome \in {"results", "empty", "rejected"} :
       /\ task[c] = "looking"
       /\ IF outcome = "results"
          THEN /\ wordLookupState' = openWordLookup(c)
               /\ opened' = Append(opened, [click |-> c, latest |-> latest])
               /\ task' = [task EXCEPT ![c] = "returned"]
          ELSE /\ task' = [task EXCEPT ![c] = IF outcome = "rejected" THEN "threw" ELSE "returned"]
               /\ UNCHANGED <<wordLookupState, opened>>
  /\ UNCHANGED latest
  /\ UNCHANGED <<op, pc, word, readingHint, db, bfs, deinflectionResults, k, results,
                 seenSequences, validated, iterations, ret, queries, error, first>>
  /\ UNCHANGED substringVars
  /\ UNCHANGED <<furiganaVars, loaderVars>>

Next ==
  \/ CallDeinflect
  \/ DeinflectStep
  \/ DeinflectReturn
  \/ CallLookupWord
  \/ CallLookupWordAgain
  \/ CallLookupWordBest
  \/ QueryCandidate
  \/ QueryFails
  \/ LookupReturn
  \/ BestReturn
  \/ CallLookupWordWithSubstrings
  \/ NextLength
  \/ SubstringQuery
  \/ SubstringQueryFails
  \/ SubstringReturn
  \/ CallInitFuriganaGenerator
  \/ InitFulfilled
  \/ InitRejected
  \/ CallLoadDictionary
  \/ FetchIndex
  \/ ClearDictionary
  \/ FetchTermBank
  \/ AddDictionaryEntries
  \/ SetDictionaryVersion
  \/ CheckDictionaryStatus
  \/ ClickAccepted
  \/ TokenSettled
  \/ LookupSettled

Spec == Init /\ [][Next]_vars

----------------------------------------------------------------------------
(* Properties of deinflect *)

DeinflectDone == op = "deinflect" /\ pc = "done"

Terms(list) == {list[i].term : i \in 1..Len(list)}

\* the strings one rule application leads to from t: a suffix equal to some
\* rule's kanaIn is replaced by that rule's kanaOut
OneApplication(t) ==
  LET fit == SelectSeq(DEINFLECTION_RULES,
               LAMBDA r : /\ Len(r.kanaIn) <= Len(t)
                          /\ SubSeq(t, Len(t) - Len(r.kanaIn) + 1, Len(t)) = r.kanaIn)
  IN {SubSeq(t, 1, Len(t) - Len(fit[i].kanaIn)) \o fit[i].kanaOut : i \in 1..Len(fit)}

\* known, and all that zero or more applications lead to from the frontier
RECURSIVE Closure(_, _)
Closure(known, frontier) ==
  IF frontier = {} THEN known
  ELSE LET next == UNION {OneApplication(t) : t \in frontier} \ known
       IN Closure(known \cup next, next)

\* the strings reachable from the strings of S by zero or more applications
ReachableFrom(S) == Closure(S, S)

\* C1: for every non-empty word, the list deinflect returns starts with the
\* candidate whose term is the word and whose rules and reasons are empty.
C1_OriginalWordFirst ==
  (DeinflectDone /\ Len(word) > 0) =>
    /\ Len(ret) >= 1
    /\ ret[1] = [term |-> word, rules |-> <<>>, reasons |-> <<>>]

\* a non-empty word was deinflected and gave further candidates
C1_Witness == DeinflectDone /\ Len(word) > 0 /\ Len(ret) >= 3

\* C2: every call of deinflect terminates.  A term is queued only when it
\* enters the visited set, the visited set holds only strings reachable from
\* the word, and every iteration of the loop takes one candidate off the
\* queue: so the loop makes no more iterations than there are reachable
\* strings, and the call has returned only with an empty queue.
C2_Terminates ==
  (op = "deinflect") =>
    LET reachable == ReachableFrom({word})
    IN /\ bfs.seen \subseteq reachable
       /\ iterations + Len(bfs.queue) = Cardinality(bfs.seen)
       /\ iterations <= Cardinality(reachable)
       /\ pc = "done" => bfs.queue = <<>>

\* a call that went through several iterations of the loop has returned
C2_Witness == DeinflectDone /\ iterations >= 4 /\ bfs.queue = <<>>

\* C3: the list deinflect returns never has two candidates with the same term.
C3_NoDuplicateTerms ==
  DeinflectDone =>
    \A i, j \in 1..Len(ret) : i # j => ret[i].term # ret[j].term

\* the call returned and some term of its list is derived in two ways (from two
\* candidates, or by two rules), so that the visited set had to refuse one
C3_Witness ==
  /\ DeinflectDone
  /\ \E a, b \in 1..Len(ret) :
       \E x \in 1..Len(MatchingRules(ret[a].term)),
          y \in 1..Len(MatchingRules(ret[b].term)) :
         /\ a # b \/ x # y
         /\ NewTerm(ret[a].term, MatchingRules(ret[a].term)[x])
              = NewTerm(ret[b].term, MatchingRules(ret[b].term)[y])

\* C4: the terms deinflect returns are exactly the strings reachable from the
\* word by zero or more rule applications.
C4_ExactlyReachable ==
  DeinflectDone => Terms(ret) = ReachableFrom({word})

\* the call returned a term that takes two applications to reach
C4_Witness ==
  /\ DeinflectDone
  /\ \E t \in Terms(ret) :
       t \notin ({word} \cup OneApplication(word))

\* 'nai' in hiragana, and 'ru'
Nai == <<12394, 12356>>
Ru == <<12427>>

\* C5: for every stem s, deinflect(s + 'nai') has a candidate with term
\* s + 'ru' and reasons exactly ['negative'].
C5_NegativeToRu ==
  (DeinflectDone /\ Len(word) >= 2 /\ SubSeq(word, Len(word) - 1, Len(word)) = Nai) =>
    \E i \in 1..Len(ret) :
      /\ ret[i].term = SubSeq(word, 1, Len(word) - 2) \o Ru
      /\ ret[i].reasons = <<"negative">>

\* scenario 1: deinflect of Tabenai has returned, with Taberu by 'negative'
C5_Witness ==
  /\ DeinflectDone /\ word = Tabenai
  /\ \E i \in 1..Len(ret) : ret[i].term = Taberu /\ ret[i].reasons = <<"negative">>

----------------------------------------------------------------------------
(* Properties of validateDeinflection and lookupWord *)

LookupDone == op = "lookupWord" /\ pc = "done"

\* C6: validateDeinflection returns true whenever the candidate's grammar
\* chain is empty, whatever the entry's rules and tags hold.
C6_EmptyChainAccepted ==
  \A n \in 1..Len(validated) :
    validated[n].rules = <<>> => validated[n].ok

\* the validator was called with an empty chain on an entry that declares
\* rules and tags
C6_Witness ==
  \E n \in 1..Len(validated) :
    /\ validated[n].rules = <<>>
    /\ tokens(validated[n].entry.rules) # <<>>
    /\ tokens(validated[n].entry.tags) # <<>>

\* the tokens of an entry's rules and of its tags
RulesAndTags(entry) ==
  {tokens(entry.rules)[i] : i \in 1..Len(tokens(entry.rules))}
    \cup {tokens(entry.tags)[i] : i \in 1..Len(tokens(entry.tags))}

\* some class of the chain is a token of the entry, or is 'v5' while a token
\* of the entry begins with 'v5'
SomeClassFits(chain, entry) ==
  \E c \in 1..Len(chain) :
    \/ chain[c] \in RulesAndTags(entry)
    \/ /\ chain[c] = <<118, 53>>
       /\ \E t \in RulesAndTags(entry) : Len(t) >= 2 /\ SubSeq(t, 1, 2) = <<118, 53>>

\* C7, as claimed: with a non-empty chain and an entry that declares a rules
\* token or a tags token, the validator returns true exactly when some class
\* fits; it accepts unconditionally only entries with no rules and no tags.
C7_AsClaimed ==
  \A n \in 1..Len(validated) :
    (Len(validated[n].rules) > 0 /\ RulesAndTags(validated[n].entry) # {}) =>
      (validated[n].ok <=> SomeClassFits(validated[n].rules, validated[n].entry))

\* C7, amended: with a non-empty chain and an entry that declares a rules
\* token, the validator returns true exactly when some class fits; an entry
\* that declares no rules token is accepted whatever its tags are.
C7_RulesDecide ==
  \A n \in 1..Len(validated) :
    Len(validated[n].rules) > 0 =>
      IF tokens(validated[n].entry.rules) # <<>>
      THEN validated[n].ok <=> SomeClassFits(validated[n].rules, validated[n].entry)
      ELSE validated[n].ok

\* the validator has, with non-empty chains, rejected an entry with rules,
\* accepted an entry with rules through its tags alone, and accepted an
\* entry with tags but no rules whose tags fit no class
C7_Witness ==
  /\ \E n \in 1..Len(validated) :
       /\ Len(validated[n].rules) > 0
       /\ tokens(validated[n].entry.rules) # <<>>
       /\ ~validated[n].ok
  /\ \E n \in 1..Len(validated) :
       /\ Len(validated[n].rules) > 0
       /\ tokens(validated[n].entry.rules) # <<>>
       /\ validated[n].ok
       /\ ~SomeClassFits(validated[n].rules, [validated[n].entry EXCEPT !.tags = <<>>])
  /\ \E n \in 1..Len(validated) :
       /\ Len(validated[n].rules) > 0
       /\ tokens(validated[n].entry.rules) = <<>>
       /\ tokens(validated[n].entry.tags) # <<>>
       /\ ~SomeClassFits(validated[n].rules, validated[n].entry)

\* a token for a sub-variant of godan verbs: 'v5' and one more letter
IsGodanVariant(t) == Len(t) = 3 /\ SubSeq(t, 1, 2) = <<118, 53>>

\* C8: when the chain holds the class 'v5', at whatever place, and the
\* entry's rules hold a godan sub-variant such as 'v5u', the validator
\* returns true.
C8_GodanPrefix ==
  \A n \in 1..Len(validated) :
    ( /\ \E c \in 1..Len(validated[n].rules) : validated[n].rules[c] = <<118, 53>>
      /\ \E i \in 1..Len(tokens(validated[n].entry.rules)) :
           IsGodanVariant(tokens(validated[n].entry.rules)[i]) )
    => validated[n].ok

\* the validator was called with 'v5' behind another class of the chain, on
\* an entry whose rules are one godan sub-variant
C8_Witness ==
  \E n \in 1..Len(validated) :
    /\ Len(validated[n].rules) >= 2
    /\ validated[n].rules[1] # <<118, 53>>
    /\ validated[n].rules[2] = <<118, 53>>
    /\ Len(tokens(validated[n].entry.rules)) = 1
    /\ IsGodanVariant(tokens(validated[n].entry.rules)[1])

\* C9: lookupWord never returns two results built from entries with the
\* same sequence number.
C9_NoDuplicateSequence ==
  LookupDone =>
    \A i, j \in 1..Len(ret) : i # j => ret[i].sequence # ret[j].sequence

\* lookupWord returned while the index gave, for two candidates, rows of one
\* sequence number that both pass validation
C9_Witness ==
  /\ LookupDone
  /\ \E a, b \in 1..Len(deinflectionResults) :
       /\ a # b
       /\ \E x \in 1..Len(lookupByTermOrReading(db, deinflectionResults[a].term)),
             y \in 1..Len(lookupByTermOrReading(db, deinflectionResults[b].term)) :
            /\ lookupByTermOrReading(db, deinflectionResults[a].term)[x].sequence
                 = lookupByTermOrReading(db, deinflectionResults[b].term)[y].sequence
            /\ validateDeinflection(deinflectionResults[a],
                 lookupByTermOrReading(db, deinflectionResults[a].term)[x])
            /\ validateDeinflection(deinflectionResults[b],
                 lookupByTermOrReading(db, deinflectionResults[b].term)[y])

\* a reading hint was supplied and the result's reading, in hiragana, is the
\* hint in hiragana
FitsHint(r) ==
  /\ Len(readingHint) = 1
  /\ katakanaToHiragana(r.reading) = katakanaToHiragana(readingHint[1])

\* C10: in the list lookupWord returns, results that fit the reading hint
\* come before those that do not, whatever their scores; among results alike
\* in that, scores do not increase; among results alike in both, discovery
\* order is kept.
C10_Ranked ==
  LookupDone =>
    \A i, j \in 1..Len(ret) :
      i < j =>
        /\ ~(~FitsHint(ret[i]) /\ FitsHint(ret[j]))
        /\ (FitsHint(ret[i]) <=> FitsHint(ret[j])) => ret[i].score >= ret[j].score
        /\ ((FitsHint(ret[i]) <=> FitsHint(ret[j])) /\ ret[i].score = ret[j].score)
             => ret[i].discovered < ret[j].discovered

\* lookupWord returned a result that fits the hint ahead of one with a higher
\* score that does not, and two results alike in both keys
C10_Witness ==
  /\ LookupDone
  /\ \E i, j \in 1..Len(ret) :
       i < j /\ FitsHint(ret[i]) /\ ~FitsHint(ret[j]) /\ ret[i].score < ret[j].score
  /\ \E i, j \in 1..Len(ret) :
       i < j /\ (FitsHint(ret[i]) <=> FitsHint(ret[j])) /\ ret[i].score = ret[j].score

----------------------------------------------------------------------------
(* Scenarios of lookupWord *)

\* a chain the entry agrees with: the chain is empty, or the entry declares
\* no rules token, or some class of the chain fits the entry
Compatible(chain, entry) ==
  \/ chain = <<>>
  \/ tokens(entry.rules) = <<>>
  \/ SomeClassFits(chain, entry)

\* the candidates whose index query returns a row of the sequence number that
\* agrees with the candidate's chain
MatchesOf(sequence) ==
  {c \in 1..Len(deinflectionResults) :
     \E x \in 1..Len(lookupByTermOrReading(db, deinflectionResults[c].term)) :
       /\ lookupByTermOrReading(db, deinflectionResults[c].term)[x].sequence = sequence
       /\ Compatible(deinflectionResults[c].rules,
                     lookupByTermOrReading(db, deinflectionResults[c].term)[x])}

\* the first of them
MatchedAt(sequence) ==
  CHOOSE c \in MatchesOf(sequence) : \A d \in MatchesOf(sequence) : c <= d

\* the store of the scenario: the single entry of term 'taberu' (kanji),
\* reading 'taberu', rules 'v1', sequence 1001
TaberuOnly ==
  {r \in Pool : r.term = Taberu /\ r.reading = KanaTaberu /\ r.rules = V1
                /\ r.sequence = 1001}

\* C11: on a store that holds the single entry 'taberu' (rules 'v1',
\* sequence 1001), lookupWord('tabenai') returns exactly one result, of
\* dictionaryForm 'taberu' and inflectionPath <<negative>>; and whatever the
\* store and the word, a result's inflectionPath is the chain of reasons of
\* the candidate that matched its entry.
C11_InflectionPath ==
  LookupDone =>
    /\ (word = Tabenai /\ db = TaberuOnly) =>
         /\ Len(ret) = 1
         /\ ret[1].dictionaryForm = Taberu
         /\ ret[1].inflectionPath = <<"negative">>
    /\ \A i \in 1..Len(ret) :
         /\ MatchesOf(ret[i].sequence) # {}
         /\ ret[i].inflectionPath
              = deinflectionResults[MatchedAt(ret[i].sequence)].reasons

\* lookupWord('tabenai') returned on the store of the scenario
C11_Witness ==
  /\ LookupDone
  /\ word = Tabenai
  /\ db = TaberuOnly
  /\ Cardinality(TaberuOnly) = 1
  /\ Len(ret) = 1

\* the candidates one rule application away from the word whose term is the
\* term of the entry and whose chain the entry agrees with
OneStepTo(entry) ==
  {c \in 1..Len(deinflectionResults) :
     /\ Len(deinflectionResults[c].reasons) = 1
     /\ deinflectionResults[c].term = entry.term
     /\ Compatible(deinflectionResults[c].rules, entry)}

\* the places of the returned list built from the sequence number
PlacesOf(sequence) == {i \in 1..Len(ret) : ret[i].sequence = sequence}

\* a literal entry of the word (its term is the word, it declares no rule) and
\* an entry of another sequence number, not matched by the word itself, whose
\* term is a compatible one-step deinflected form
LiteralAndDeinflected(literal, other) ==
  /\ literal.term = word
  /\ tokens(literal.rules) = <<>>
  /\ other.sequence # literal.sequence
  /\ \A r \in db : r.sequence = other.sequence => (r.term # word /\ r.reading # word)
  /\ OneStepTo(other) # {}

----------------------------------------------------------------------------
(* Failure of the Dictionary Index, repeated calls *)

\* no candidate of the call has, in the store, a row of its term or reading
\* that agrees with its chain
NoCandidateMatches ==
  \A c \in 1..Len(deinflectionResults) :
    \A r \in db :
      (r.term = deinflectionResults[c].term \/ r.reading = deinflectionResults[c].term)
        => ~Compatible(deinflectionResults[c].rules, r)

\* C13, as claimed: lookupWord never throws, whatever the word and the
\* reading hint are.
C13_AsClaimed == op = "lookupWord" => pc # "failed"

\* C13, amended: lookupWord is rejected only when a read of the Dictionary
\* Index has failed, and then with that failure; when no candidate matches
\* any entry it returns an empty list.
C13_ThrowsOnlyOnStoreFailure ==
  op = "lookupWord" =>
    /\ pc = "failed" =>
         /\ queries # <<>>
         /\ queries[Len(queries)].failed \in StoreErrors
         /\ error = queries[Len(queries)].failed
    /\ pc # "failed" =>
         /\ error = "none"
         /\ \A n \in 1..Len(queries) : queries[n].failed = "none"
    /\ (pc = "done" /\ NoCandidateMatches) => ret = <<>>

\* lookupWord returned an empty list on a store whose only matching rows
\* disagree with the candidate's chain; called again, it was rejected
C13_Witness ==
  /\ op = "lookupWord"
  /\ pc = "failed"
  /\ first = << <<>> >>
  /\ NoCandidateMatches
  /\ \E c \in 1..Len(deinflectionResults) :
       lookupByTermOrReading(db, deinflectionResults[c].term) # <<>>

\* C14: when lookupByTermOrReading fails during lookupWord or
\* lookupWordWithSubstrings, the call fails with the store's failure: the
\* failed query is the last one issued (no retry, no later candidate is
\* queried) and nothing is returned, whatever results had been accumulated.
C14_StoreFailurePropagates ==
  \A n \in 1..Len(queries) :
    queries[n].failed # "none" =>
      /\ n = Len(queries)
      /\ pc = "failed"
      /\ error = queries[n].failed
      /\ ret = <<>>

\* lookupWordWithSubstrings was rejected by a failed read while it held
\* results and had candidates and lengths left to try
C14_Witness ==
  /\ op = "lookupWordWithSubstrings"
  /\ pc = "failed"
  /\ error \in StoreErrors
  /\ results # <<>>
  /\ k < Len(deinflectionResults)
  /\ len > 1

\* C15: two calls of lookupWord with the same word and hint on an unchanged
\* store return the same list, in the same order.
C15_SameListTwice ==
  (LookupDone /\ first # <<>>) => ret = first[1]

\* the second of two identical calls returned a list of several results
C15_Witness ==
  /\ LookupDone
  /\ first # <<>>
  /\ Len(first[1]) >= 2
  /\ Len(ret) >= 2

----------------------------------------------------------------------------
(* Properties of lookupWordWithSubstrings, lookupWordBest and the index *)

SubstringsDone == op = "lookupWordWithSubstrings" /\ pc = "done"

\* C16: the list lookupWordWithSubstrings returns is sorted by non-increasing
\* matchLength; among results of equal matchLength those that fit the
\* reading hint come first; among results alike in both, scores do not
\* increase.
C16_RankedByLength ==
  SubstringsDone =>
    \A i, j \in 1..Len(ret) :
      i < j =>
        /\ ret[i].matchLength >= ret[j].matchLength
        /\ ret[i].matchLength = ret[j].matchLength =>
             ~(~FitsHint(ret[i]) /\ FitsHint(ret[j]))
        /\ (ret[i].matchLength = ret[j].matchLength
              /\ (FitsHint(ret[i]) <=> FitsHint(ret[j])))
             => ret[i].score >= ret[j].score

\* lookupWordWithSubstrings returned a longer match ahead of a shorter one
\* with a higher score, and, at one length, a result that fits the hint
\* ahead of one that does not
C16_Witness ==
  /\ SubstringsDone
  /\ \E i, j \in 1..Len(ret) :
       i < j /\ ret[i].matchLength > ret[j].matchLength /\ ret[i].score < ret[j].score
  /\ \E i, j \in 1..Len(ret) :
       /\ i < j
       /\ ret[i].matchLength = ret[j].matchLength
       /\ FitsHint(ret[i]) /\ ~FitsHint(ret[j])

\* at the length, some candidate's query returned a row of the sequence
\* number that agrees with the candidate's chain
FoundAt(length, sequence) ==
  \E n \in 1..Len(queries) :
    /\ queries[n].len = length
    /\ \E x \in 1..Len(queries[n].entries) :
         /\ queries[n].entries[x].sequence = sequence
         /\ Compatible(queries[n].rules, queries[n].entries[x])

\* C17: in the list lookupWordWithSubstrings returns, every entry (by
\* sequence number) appears at most once, and its matchLength is the longest
\* tried length at which the entry was found and passed validation.
C17_LongestMatchOnce ==
  SubstringsDone =>
    /\ \A i, j \in 1..Len(ret) : i # j => ret[i].sequence # ret[j].sequence
    /\ \A i \in 1..Len(ret) :
         /\ FoundAt(ret[i].matchLength, ret[i].sequence)
         /\ \A n \in 1..Len(tried) :
              FoundAt(tried[n], ret[i].sequence) => tried[n] <= ret[i].matchLength

\* lookupWordWithSubstrings returned an entry that was found, and passed
\* validation, at a shorter length as well
C17_Witness ==
  /\ SubstringsDone
  /\ \E i \in 1..Len(ret) :
       \E n \in 1..Len(tried) :
         tried[n] < ret[i].matchLength /\ FoundAt(tried[n], ret[i].sequence)

\* the lengths from n down to 1
Descending(n) == [i \in 1..(IF n >= 1 THEN n ELSE 0) |-> n + 1 - i]

\* the substring of the call's text at its start index, of the length
Prefix(length) == SubSeq(inputText, startIndex + 1, startIndex + length)

\* C18: lookupWordWithSubstrings tries exactly the lengths from
\* min(startIndex + maxLength, length(text)) - startIndex down to 1; for a
\* length whose substring holds one of the characters 。！？, line feed or
\* carriage return it issues no index query and emits no result, and no
\* result's selectedWord holds such a character.
C18_LengthsAndSentenceEnds ==
  op = "lookupWordWithSubstrings" =>
    /\ pc = "done" =>
         tried = Descending((IF startIndex + maxLength <= Len(inputText)
                             THEN startIndex + maxLength ELSE Len(inputText)) - startIndex)
    /\ \A n \in 1..Len(tried) :
         (\E i \in 1..Len(Prefix(tried[n])) : Prefix(tried[n])[i] \in SentenceEnd) =>
           /\ \A q \in 1..Len(queries) : queries[q].len # tried[n]
           /\ \A i \in 1..Len(results) : results[i].matchLength # tried[n]
    /\ \A i \in 1..Len(ret) :
         /\ ret[i].selectedWord = Prefix(ret[i].matchLength)
         /\ \A c \in 1..Len(ret[i].selectedWord) : ret[i].selectedWord[c] \notin SentenceEnd

\* lookupWordWithSubstrings returned results for a text that is shorter than
\* startIndex + maxLength and holds a line feed, having skipped a length
C18_Witness ==
  /\ SubstringsDone
  /\ startIndex + maxLength > Len(inputText)
  /\ \E n \in 1..Len(tried) : 10 \in {Prefix(tried[n])[i] : i \in 1..tried[n]}
  /\ ret # <<>>

\* C19: lookupWordBest returns null exactly when the lookupWord call it makes
\* returns an empty list, and otherwise the first element of that list
\* (<<>> is null, <<r>> the result r).
C19_BestIsFirst ==
  [][ (op = "lookupWordBest" /\ pc = "best" /\ pc' = "done") =>
        /\ (ret' = <<>>) <=> (ret = <<>>)
        /\ ret # <<>> => ret' = <<ret[1]>> ]_vars

\* lookupWordBest returned a result while lookupWord's list held several
\* results, the last of which is another one
C19_Witness ==
  /\ op = "lookupWordBest"
  /\ pc = "done"
  /\ Len(ret) = 1
  /\ Len(results) >= 2
  /\ ret[1].sequence # SortResults(results, NormalizedHint(readingHint))[Len(results)].sequence

\* C20: lookupByTermOrReading(text) returns exactly the entries whose term or
\* reading equals text, at most one row per sequence number, ordered by
\* non-increasing score.
C20_IndexAnswer ==
  \A n \in 1..Len(queries) :
    queries[n].failed = "none" =>
      /\ \A x \in 1..Len(queries[n].entries) :
           /\ queries[n].entries[x] \in db
           /\ \/ queries[n].entries[x].term = queries[n].term
              \/ queries[n].entries[x].reading = queries[n].term
      /\ \A r \in db :
           (r.term = queries[n].term \/ r.reading = queries[n].term) =>
             \E x \in 1..Len(queries[n].entries) :
               queries[n].entries[x].sequence = r.sequence
      /\ \A x, y \in 1..Len(queries[n].entries) :
           /\ x # y => queries[n].entries[x].sequence # queries[n].entries[y].sequence
           /\ x < y => queries[n].entries[x].score >= queries[n].entries[y].score

\* a query was answered with rows of different scores from a store that
\* holds two matching rows of one sequence number and a row whose term and
\* reading both equal the text
C20_Witness ==
  \E n \in 1..Len(queries) :
    /\ Len(queries[n].entries) >= 2
    /\ queries[n].entries[1].score > queries[n].entries[2].score
    /\ \E r, q \in db :
         /\ r # q
         /\ r.sequence = q.sequence
         /\ r.term = queries[n].term \/ r.reading = queries[n].term
         /\ q.term = queries[n].term \/ q.reading = queries[n].term
    /\ \E r \in db : r.term = queries[n].term /\ r.reading = queries[n].term

----------------------------------------------------------------------------
(* The order of the Rule Table *)

\* the places of the table that hold the suffix pair 'rareru' -> 'ru'
\* (deinflector.ts lines 222 and 244)
RareruRules ==
  {n \in 1..Len(DEINFLECTION_RULES) :
     /\ DEINFLECTION_RULES[n].kanaIn = <<12425, 12428, 12427>>
     /\ DEINFLECTION_RULES[n].kanaOut = <<12427>>}

\* the table with the rules at two places exchanged
Exchanged(a, b) ==
  [n \in 1..Len(DEINFLECTION_RULES) |->
     IF n = a THEN DEINFLECTION_RULES[b]
     ELSE IF n = b THEN DEINFLECTION_RULES[a]
     ELSE DEINFLECTION_RULES[n]]

\* the table read from its end
Reversed ==
  [n \in 1..Len(DEINFLECTION_RULES) |->
     DEINFLECTION_RULES[Len(DEINFLECTION_RULES) + 1 - n]]

\* permutations of the table: the two 'rareru' rules exchanged, the table
\* reversed
RuleOrders ==
  {Exchanged(a, b) : a, b \in RareruRules} \cup {Reversed}

\* deinflect, run over a table given as an argument
WhileIterIn(table, st) ==
  ApplyRules(Head(st.queue),
             SelectSeq(table, LAMBDA rule : RuleApplies(Head(st.queue).term, rule)), 1,
             [results |-> st.results, seen |-> st.seen, queue |-> Shift(st.queue)])

RECURSIVE WhileLoopIn(_, _)
WhileLoopIn(table, st) ==
  IF Len(st.queue) > 0 THEN WhileLoopIn(table, WhileIterIn(table, st)) ELSE st

deinflectIn(table, w) == WhileLoopIn(table, BfsInit(w)).results

\* the candidates of a list, as a set
CandidateSet(list) == {list[i] : i \in 1..Len(list)}

\* C21, as claimed: whatever the order of the Rule Table, deinflect gives
\* every candidate term the same grammar chain and the same reason chain.
C21_AsClaimed ==
  DeinflectDone =>
    \A table \in RuleOrders :
      CandidateSet(deinflectIn(table, word)) = CandidateSet(ret)

----------------------------------------------------------------------------
(* More properties of deinflect *)

\* the candidate that stands for the word itself
Original(w) == [term |-> w, rules |-> <<>>, reasons |-> <<>>]

\* C22: deinflect is total: a call never fails, and while it has not returned
\* it can return (empty queue) or its next iteration is defined and gives up
\* nothing it had; for the empty string it returns exactly one candidate
\* (empty term, empty chains); for a string that ends with no rule's
\* inflected suffix it returns only the original-word candidate.
C22_Total ==
  op = "deinflect" =>
    /\ error = "none"
    /\ pc \in {"bfs", "done"}
    /\ pc = "bfs" =>
         IF Len(bfs.queue) = 0 THEN ENABLED DeinflectReturn
         ELSE LET after == WhileIter(bfs)
              IN /\ Len(after.queue) >= Len(bfs.queue) - 1
                 /\ Len(after.results) >= Len(bfs.results)
                 /\ bfs.seen \subseteq after.seen
    /\ (pc = "done" /\ word = <<>>) => ret = << Original(<<>>) >>
    /\ (pc = "done" /\ OneApplication(word) = {}) => ret = << Original(word) >>

\* deinflect returned for a non-empty word that ends with no rule's suffix
\* though it holds one inside
C22_Witness ==
  /\ DeinflectDone
  /\ Len(word) >= 2
  /\ OneApplication(word) = {}
  /\ OneApplication(SubSeq(word, 1, Len(word) - 1)) # {}
  /\ ret = << Original(word) >>

\* the sets of strings first reached by 0, 1, 2, ... rule applications
RECURSIVE Levels(_, _)
Levels(known, frontier) ==
  IF frontier = {} THEN <<>>
  ELSE LET next == (UNION {OneApplication(t) : t \in frontier}) \ known
       IN <<frontier>> \o Levels(known \cup next, next)

\* C23: deinflect returns candidates in breadth-first order: the length of
\* the reason chain does not decrease along the returned list, and the chain
\* recorded for a term has the least number of rule applications that derive
\* the term from the word.
C23_BreadthFirst ==
  DeinflectDone =>
    LET levels == Levels({word}, {word})
    IN /\ \A i, j \in 1..Len(ret) :
            i < j => Len(ret[i].reasons) <= Len(ret[j].reasons)
       /\ \A i \in 1..Len(ret) :
            /\ Len(ret[i].reasons) + 1 <= Len(levels)
            /\ ret[i].term \in levels[Len(ret[i].reasons) + 1]

\* deinflect returned a term of the second level that a term of the first
\* level, other than the first one, leads to
C23_Witness ==
  /\ DeinflectDone
  /\ \E i, j \in 1..Len(ret) :
       /\ 2 < i
       /\ Len(ret[i].reasons) = 1
       /\ Len(ret[j].reasons) = 2
       /\ ret[j].term \in OneApplication(ret[i].term)
       /\ ret[j].term \notin OneApplication(ret[2].term)

\* C26: every candidate deinflect returns has one reason per rule applied
\* and at least one grammar class per rule applied: each step of the loop
\* pushes candidates with one reason more, and at least one class more, than
\* the candidate taken from the queue; so a returned candidate has an empty
\* grammar chain exactly when it is the original word.
C26_ChainsGrowTogether ==
  /\ [](DeinflectDone =>
          \A i \in 1..Len(ret) :
            /\ Len(ret[i].rules) >= Len(ret[i].reasons)
            /\ (ret[i].rules = <<>>) <=> (i = 1)
            /\ (ret[i].reasons = <<>>) <=> (i = 1))
  /\ [][ (op = "deinflect" /\ pc = "bfs" /\ pc' = "bfs") =>
           \A i \in (Len(bfs.results) + 1)..Len(bfs'.results) :
             /\ Len(bfs'.results[i].reasons) = Len(Head(bfs.queue).reasons) + 1
             /\ Len(bfs'.results[i].rules) >= Len(Head(bfs.queue).rules) + 1 ]_vars

\* deinflect returned a candidate two rules away from the word whose
\* grammar chain is longer than its reason chain
C26_Witness ==
  /\ DeinflectDone
  /\ \E i \in 1..Len(ret) :
       /\ Len(ret[i].reasons) >= 2
       /\ Len(ret[i].rules) > Len(ret[i].reasons)

----------------------------------------------------------------------------
(* lookupWordWithSubstrings against lookupWord *)

\* lookupWord's loop over the candidates from the j-th on, on a store given
\* as an argument
RECURSIVE ForCandidates(_, _, _, _, _)
ForCandidates(w, rows, candidates, j, st) ==
  IF j > Len(candidates) THEN st
  ELSE ForCandidates(w, rows, candidates, j + 1,
         ForEntries(w, candidates[j],
                    lookupByTermOrReading(rows, candidates[j].term), <<>>, st))

\* the list lookupWord(w, hint) returns on the store
lookupWord(rows, w, hint) ==
  SortResults(
    ForCandidates(w, rows, Candidates(w), 1,
                  [results |-> <<>>, seenSequences |-> {}, validated |-> <<>>]).results,
    NormalizedHint(hint))

\* what a result shows of its entry and of the match
Shown(r) ==
  [selectedWord |-> r.selectedWord, sequence |-> r.sequence,
   dictionaryForm |-> r.dictionaryForm, reading |-> r.reading,
   partOfSpeech |-> r.partOfSpeech, definitions |-> r.definitions,
   inflectionPath |-> r.inflectionPath, score |-> r.score]

\* the sequence numbers returned with a match longer than the length
EmittedLonger(length) ==
  {ret[i].sequence : i \in {n \in 1..Len(ret) : ret[n].matchLength > length}}

\* what lookupWord returns for the substring of the length, less the entries
\* returned with a longer match
LookupWordAt(length) ==
  LET list == lookupWord(db, Prefix(length), readingHint)
  IN {Shown(list[i]) :
        i \in {n \in 1..Len(list) : list[n].sequence \notin EmittedLonger(length)}}

\* C24: for every length lookupWordWithSubstrings does not skip, the results
\* it returns with that matchLength are the results lookupWord produces for
\* the substring of that length (same entry, dictionaryForm, reading,
\* definitions, inflectionPath, score; selectedWord the substring), minus
\* those whose sequence was returned at a longer length.
C24_LookupWordPerLength ==
  SubstringsDone =>
    \A n \in 1..Len(tried) :
      ~(\E c \in 1..tried[n] : Prefix(tried[n])[c] \in SentenceEnd) =>
        {Shown(ret[i]) : i \in {m \in 1..Len(ret) : ret[m].matchLength = tried[n]}}
          = LookupWordAt(tried[n])

\* lookupWordWithSubstrings returned results of two lengths, and at a
\* shorter length that it tried lookupWord finds an entry that was returned
\* with a longer match
C24_Witness ==
  /\ SubstringsDone
  /\ \E i, j \in 1..Len(ret) : ret[i].matchLength > ret[j].matchLength
  /\ \E i \in 1..Len(ret) :
       \E n \in 1..Len(tried) :
         /\ tried[n] < ret[i].matchLength
         /\ \E x \in 1..Len(lookupWord(db, Prefix(tried[n]), readingHint)) :
              lookupWord(db, Prefix(tried[n]), readingHint)[x].sequence = ret[i].sequence

----------------------------------------------------------------------------
(* The reading hint, in either kana *)

\* a string with its katakana (U+30A1 .. U+30F6) turned into hiragana
InHiragana(s) ==
  [i \in 1..Len(s) |-> IF s[i] >= 12449 /\ s[i] <= 12534 THEN s[i] - 96 ELSE s[i]]

\* the reading of the result and the hint are the same reading, in whichever
\* kana each is written
SameReading(r) ==
  /\ Len(readingHint) = 1
  /\ InHiragana(r.reading) = InHiragana(readingHint[1])

\* C25: the reading hint is compared kana-insensitively: the list lookupWord
\* or lookupWordWithSubstrings returns for a hint is the list it returns for
\* the same reading in hiragana (the accumulated results sorted under that
\* hint), and a result whose stored reading is the hint's reading in the
\* other kana is ranked as matching: no result of another reading (and, for
\* lookupWordWithSubstrings, of the same matchLength) stands before it.
C25_KanaInsensitiveHint ==
  /\ (LookupDone /\ Len(readingHint) = 1) =>
       /\ ret = SortResults(results, NormalizedHint(<<InHiragana(readingHint[1])>>))
       /\ \A i, j \in 1..Len(ret) :
            (SameReading(ret[j]) /\ ~SameReading(ret[i])) => j < i
  /\ (SubstringsDone /\ Len(readingHint) = 1) =>
       /\ ret = SortSubstringResults(results, NormalizedHint(<<InHiragana(readingHint[1])>>))
       /\ \A i, j \in 1..Len(ret) :
            ( /\ ret[i].matchLength = ret[j].matchLength
              /\ SameReading(ret[j]) /\ ~SameReading(ret[i]) ) => j < i

\* lookupWord, given a hint in katakana, returned a result whose stored
\* reading is in katakana, and one whose stored reading is the same in
\* hiragana, ahead of a result of another reading and a higher score
C25_Witness ==
  /\ LookupDone
  /\ Len(readingHint) = 1
  /\ readingHint[1] # InHiragana(readingHint[1])
  /\ \E i, j, n \in 1..Len(ret) :
       /\ i < n /\ j < n
       /\ SameReading(ret[i]) /\ ret[i].reading # InHiragana(ret[i].reading)
       /\ SameReading(ret[j]) /\ ret[j].reading = InHiragana(ret[j].reading)
       /\ ~SameReading(ret[n])
       /\ ret[n].score > ret[i].score

----------------------------------------------------------------------------
(* Entries returned for several candidates *)

\* the calls of the validator made so far for rows of the sequence number
ValidatedFor(sequence) ==
  {n \in 1..Len(validated) : validated[n].entry.sequence = sequence}

\* C27: in lookupWord and lookupWordWithSubstrings a sequence number is
\* marked as consumed only when a candidate and an entry pass the validator:
\* the consumed sequence numbers are those of the accepted pairs, a rejection
\* leaves the entry open to a later candidate, and an entry rejected for an
\* earlier candidate and accepted for a later one is emitted once, with the
\* inflectionPath of the candidate it was accepted for.
C27_ConsumedOnAcceptance ==
  op \in {"lookupWord", "lookupWordBest", "lookupWordWithSubstrings"} =>
    /\ seenSequences = {validated[n].entry.sequence : n \in {m \in 1..Len(validated) : validated[m].ok}}
    /\ \A n \in 1..Len(validated) :
         validated[n].ok =>
           /\ \A m \in ValidatedFor(validated[n].entry.sequence) : m # n => ~validated[m].ok /\ m < n
           /\ \E i \in 1..Len(results) :
                /\ results[i].sequence = validated[n].entry.sequence
                /\ results[i].inflectionPath = validated[n].reasons
                /\ results[i].dictionaryForm = validated[n].entry.term
                /\ \A j \in 1..Len(results) :
                     results[j].sequence = results[i].sequence => j = i
    /\ \A i \in 1..Len(results) :
         \E n \in 1..Len(validated) :
           validated[n].ok /\ validated[n].entry.sequence = results[i].sequence

\* lookupWordWithSubstrings returned an entry that the index had returned for
\* two candidates: the validator rejected it for the earlier candidate and
\* accepted it for the later one, whose path the result carries
C27_Witness ==
  /\ SubstringsDone
  /\ \E n, m \in 1..Len(validated) :
       /\ n < m
       /\ validated[n].entry = validated[m].entry
       /\ ~validated[n].ok
       /\ validated[m].ok
       /\ validated[n].reasons # validated[m].reasons
       /\ \E i \in 1..Len(ret) :
            /\ ret[i].sequence = validated[m].entry.sequence
            /\ ret[i].inflectionPath = validated[m].reasons

----------------------------------------------------------------------------
(* The furigana generator, the dictionary loader, the click handler *)

\* C28, as claimed: isFuriganaReady() is true only after the initialization
\* of the generator has completed successfully; every call of
\* initFuriganaGenerator, also one made while the initialization started by
\* another call is in progress, resolves only once the initialization has
\* completed; a failed initialization does not leave the generator reported
\* as ready.
C28_AsClaimed ==
  op = "initFuriganaGenerator" =>
    /\ isFuriganaReady => kuroshiroInit = "done"
    /\ \A c \in Callers : initCalls[c] = "fulfilled" => kuroshiroInit = "done"
    /\ kuroshiroInit = "failed" => ~isFuriganaReady

\* the promises of the version a load has left in the store
LoadedWhenVersioned ==
  version # "null" =>
    /\ terms = 1..TERM_BANK_COUNT
    /\ version = bundledVersion

\* C29: loadDictionary writes the version only after all 52 term banks have
\* been fetched and stored: from the clearing of the store on, a stored
\* version comes with the 52 banks; when the fetch of a term bank fails, the
\* call fails with no version stored, and a checkDictionaryStatus that
\* returns afterwards reports needsLoad = true.
C29_VersionWrittenLast ==
  op = "loadDictionary" =>
    /\ loadPc \in {"fetch", "store", "version", "complete"} => LoadedWhenVersioned
    /\ loadPc \in {"fetch", "store", "version"} => version = "null"
    /\ loadPc = "complete" => version = revision /\ terms = 1..TERM_BANK_COUNT
    /\ (loadPc = "failed" /\ loadError.kind = "term_bank") =>
         /\ version = "null"
         /\ terms = 1..(loadError.bank - 1)
         /\ status.kind = "returned" => status.needsLoad

\* the fetch of a term bank after the first failed on a store whose version
\* was the bundled one; checkDictionaryStatus then reported needsLoad = true
\* for the partly loaded store
C29_Witness ==
  /\ op = "loadDictionary"
  /\ loadPc = "failed"
  /\ loadError.kind = "term_bank"
  /\ loadError.bank > 1
  /\ terms # {}
  /\ status.kind = "returned"
  /\ status.needsLoad
  /\ status.currentVersion = "null"

\* C30, as claimed: when a newer click has been accepted while the lookup of
\* an earlier click is pending, openWordLookup is never called with the
\* results of the earlier click, and the state shown belongs to the latest
\* click that produced results.
C30_AsClaimed ==
  op = "wordLookupHandler" =>
    /\ \A n \in 1..Len(opened) : opened[n].click = opened[n].latest
    /\ \A n \in 1..Len(opened) : wordLookupState.click >= opened[n].click

====
